---- MODULE Spec2Model ----
(***************************************************************************)
(* Task coordination engine of claude-bridge-server.                       *)
(*                                                                         *)
(* Two server processes (src/server/src/index.ts) share one SQLite store   *)
(* (src/server/src/database.ts).  A tool handler runs synchronously inside *)
(* its process, but it issues its SQL statements one by one and never      *)
(* opens a transaction, so the statements of two handlers running in the   *)
(* two processes interleave.  Every action below is one SQL statement of   *)
(* one handler together with the local computation that follows it.        *)
(***************************************************************************)
EXTENDS Integers, Sequences, FiniteSets, TLC

\* ------------------------------------------------------------------ bounds
MaxTasks == 2
MaxCalls == 4

\* --------------------------------------------------------------- constants
Procs == {"p1", "p2"}

\* index.ts getMode: how the two servers are started
Deployments == {[p1 |-> "full", p2 |-> "executor"]}

Priorities == {"critical", "high", "normal", "low"}
Statuses == {"queued", "claimed", "in_progress", "blocked", "completed", "failed", "cancelled"}
Terminal == {"completed", "failed", "cancelled"}

\* SQL NULL / JS undefined for text columns, and for timestamp columns
Null == "null"
NoTime == 0
\* "no task": the null of Task | null
None == 0

TaskIds == 1..MaxTasks

\* addDecision keeps the last 50 decisions
DecisionsKept == 50

\* values a caller may pass (zod-validated shapes, small sets)
PushInputs ==
    {[priority |-> "absent", category |-> "absent", assign_to |-> "absent"],
     [priority |-> "critical", category |-> "bugfix", assign_to |-> "executor"]}
DependsOnInputs ==
    {<< >>} \cup {<<d>> : d \in TaskIds}
            \cup {s \in TaskIds \X TaskIds : s[1] < s[2]}
\* bridge_push_tasks: tasks (1 to 20 of them) and execution_order
BatchInputs == UNION {[1..n -> PushInputs] : n \in 1..MaxTasks}
ExecutionOrders == {"absent", "sequential", "parallel"}
CategoryFilters == {<< >>, <<"bugfix">>}
ProgressInputs == {"in_progress", "blocked"}
ResultInputs == {[isNull |-> FALSE, success |-> TRUE, summary |-> "done"]}
ErrorInputs == {"error"}
ResponseInputs == {"answer"}
\* variant: the schema lets a status through
UpdateInputs_WithStatus ==
    {<< >>,
     [title |-> "t1", priority |-> "high"],
     [assigned_to |-> "architect"],
     [status |-> "queued"]}

\* bridge_update_task: the updates object ({} included)
UpdateInputs ==
    {<< >>,
     [title |-> "t1", priority |-> "high"],
     [assigned_to |-> "architect"]}
\* UpdateTaskSchema: assigned_to is nullable, the caller may clear it
UnassignInputs == {[assigned_to |-> Null]}

VARIABLES
    tasks,        \* table tasks: id -> row
    seqCounter,   \* table sequence_counter, column value
    clars,        \* table clarifications, in insertion order
    events,       \* table event_log, in id order
    clock,        \* number of timestamps handed out so far
    uuids,        \* number of identifiers (uuidv4) generated so far
    calls,        \* number of tool calls started so far
    pc,           \* per process: the statement its running handler is at
    loc,          \* per process: the local variables of the running handler
    ret,          \* what the most recently finished call returned
    mode,         \* per process: the mode its server was started in
    sessions,     \* table sessions, in insertion order
    projectState, \* table project_state, the row with id 1
    pullFilter    \* the categories the executor's work loop passes to bridge_pull_task

store == <<tasks, seqCounter, clars, events>>
vars == <<tasks, seqCounter, clars, events, clock, uuids, calls, pc, loc, ret, mode,
          sessions, projectState, pullFilter>>

\* ----------------------------------------------------------------- helpers
Range(s) == {s[i] : i \in DOMAIN s}

NullResult == [isNull |-> TRUE, success |-> FALSE, summary |-> Null]

NoLoc ==
    [op |-> "none", tid |-> None, arg |-> << >>, was |-> Null,
     todo |-> << >>, incomplete |-> {}, scan |-> << >>, filter |-> << >>,
     success |-> FALSE, id |-> None, sequence |-> 0,
     taskIds |-> << >>, previousTaskId |-> None]

\* database.ts lines 137-140: INSERT OR IGNORE INTO project_state
\* (id, recent_decisions, known_issues) VALUES (1, '[]', '[]')
NoProjectState ==
    [current_focus |-> Null, recent_decisions |-> << >>, known_issues |-> << >>,
     last_sync |-> NoTime]

NoRet ==
    [op |-> "none", task |-> None, ok |-> FALSE,
     err |-> "none", status |-> Null, val |-> None]

Ok(o, t, v) ==
    [op |-> o, task |-> t, ok |-> TRUE,
     err |-> "none", status |-> Null, val |-> v]

\* variant: the message does not name the status
Err_NoStatus(o, t, e, s) ==
    [op |-> o, task |-> t, ok |-> FALSE,
     err |-> e, status |-> Null, val |-> None]

\* handlers report a failure by throwing Error(message); the kinds are the
\* messages' kinds and status is the status the message names
Err(o, t, e, s) ==
    [op |-> o, task |-> t, ok |-> FALSE,
     err |-> e, status |-> s, val |-> None]

\* ------------------------------------------------------------ database.ts
PriorityRank(priority) ==
    CASE priority = "critical" -> 1
      [] priority = "high" -> 2
      [] priority = "normal" -> 3
      [] priority = "low" -> 4

\* getTask: SELECT * FROM tasks WHERE id = ? finds a row
Exists(T, id) == id \in DOMAIN T

\* getQueuePosition lines 492-503: CASE priority WHEN ... END, on both sides
QueueRank(priority) ==
    CASE priority = "critical" -> 1
      [] priority = "high" -> 2
      [] priority = "normal" -> 3
      [] priority = "low" -> 4

\* variant: WHERE status = 'queued' AND sequence < ?
getQueuePosition_SequenceOnly(T, taskId) ==
    IF ~Exists(T, taskId) \/ T[taskId].status # "queued" THEN -1
    ELSE Cardinality({id \in DOMAIN T :
                        /\ T[id].status = "queued"
                        /\ T[id].sequence < T[taskId].sequence}) + 1

\* getQueuePosition lines 484-508 on one store state:
\* SELECT COUNT(*) FROM tasks WHERE status = 'queued'
\*   AND (rank(priority) < rank(?) OR (priority = ? AND sequence < ?)), plus 1
getQueuePosition(T, taskId) ==
    IF ~Exists(T, taskId) \/ T[taskId].status # "queued" THEN -1
    ELSE Cardinality({id \in DOMAIN T :
                        /\ T[id].status = "queued"
                        /\ \/ QueueRank(T[id].priority) < QueueRank(T[taskId].priority)
                           \/ /\ T[id].priority = T[taskId].priority
                              /\ T[id].sequence < T[taskId].sequence}) + 1

\* the SET list built from the entries of updates
ApplyUpdates(row, updates) ==
    [f \in DOMAIN row |-> IF f \in DOMAIN updates THEN updates[f] ELSE row[f]]

\* UPDATE tasks SET ... WHERE id = ?  (no condition on the row's status)
updateTask(T, id, updates) ==
    IF DOMAIN updates = {} \/ id \notin DOMAIN T
      THEN T
      ELSE [T EXCEPT ![id] = ApplyUpdates(@, updates)]

\* result.changes > 0
updateTaskChanged(T, id, updates) ==
    DOMAIN updates # {} /\ id \in DOMAIN T

\* INSERT INTO tasks (...) VALUES (..., 'queued', ...)
NewTaskRow(id, sequence, params) ==
    [id |-> id,
     sequence |-> sequence,
     priority |-> IF params.priority = "absent" THEN "normal" ELSE params.priority,
     category |-> IF params.category = "absent" THEN "feature" ELSE params.category,
     status |-> "queued",
     title |-> params.title,
     depends_on |-> params.depends_on,
     created_by |-> params.created_by,
     assigned_to |-> IF params.assigned_to = "absent" THEN Null ELSE params.assigned_to,
     claimed_at |-> NoTime,
     started_at |-> NoTime,
     completed_at |-> NoTime,
     result |-> NullResult]

\* INSERT INTO event_log (agent, event_type, task_id, payload)
logEvent(E, agent, event_type, task_id, payload) ==
    Append(E, [id |-> Len(E) + 1, agent |-> agent, event_type |-> event_type,
               task_id |-> task_id, payload |-> payload])

\* ------------------------------------------------------- handler plumbing
\* index.ts buildTools lines 85-98
ArchitectTools == {"bridge_push_task", "bridge_push_tasks", "bridge_update_task", "bridge_cancel_task",
                   "bridge_respond_clarification"}
ExecutorTools == {"bridge_pull_task", "bridge_claim_task", "bridge_report_progress",
                  "bridge_complete_task", "bridge_fail_task", "bridge_request_clarification"}

SharedTools ==
    {"bridge_list_tasks", "bridge_update_state", "bridge_log_decision", "bridge_sync",
     "bridge_save_context", "bridge_load_context"}

buildTools(m) ==
    SharedTools
      \cup (IF m \in {"architect", "full"} THEN ArchitectTools ELSE {})
      \cup (IF m \in {"executor", "full"} THEN ExecutorTools ELSE {})

\* index.ts lines 143-152: a call of a tool the process serves; a process runs
\* one handler at a time
Call(p, tool) ==
    /\ pc[p] = "idle"
    /\ tool \in buildTools(mode[p])
    /\ calls < MaxCalls

Goto(p, label, l) ==
    /\ pc' = [pc EXCEPT ![p] = label]
    /\ loc' = [loc EXCEPT ![p] = l]
    /\ ret' = ret
    /\ mode' = mode
    /\ pullFilter' = pullFilter

Return(p, r) ==
    /\ pc' = [pc EXCEPT ![p] = "idle"]
    /\ loc' = [loc EXCEPT ![p] = NoLoc]
    /\ ret' = r
    /\ mode' = mode
    /\ pullFilter' = pullFilter

\* calls that have returned: the started ones less the running ones
Finished == calls - Cardinality({p \in Procs : pc[p] # "idle"})

\* the step is the return of a call
Returned == Finished' = Finished + 1

Init ==
    /\ tasks = << >>
    /\ seqCounter = 0
    /\ clars = << >>
    /\ events = << >>
    /\ clock = 0
    /\ uuids = 0
    /\ calls = 0
    /\ pc = [p \in Procs |-> "idle"]
    /\ loc = [p \in Procs |-> NoLoc]
    /\ ret = NoRet
    /\ mode \in Deployments
    /\ sessions = << >>
    /\ projectState = NoProjectState
    /\ pullFilter = << >>

\* task ids the running handlers have still to generate (uuidv4 in createTask)
PendingOf(p) ==
    IF pc[p] = "push_seq" THEN 1
    ELSE IF pc[p] = "batch_seq" THEN Len(loc[p].todo)
    ELSE IF pc[p] \in {"batch_insert", "batch_log"} THEN Len(loc[p].todo) - 1
    ELSE 0

RECURSIVE Pending(_)
Pending(P) ==
    IF P = {} THEN 0
    ELSE LET p == CHOOSE q \in P : TRUE IN PendingOf(p) + Pending(P \ {p})

\* ------------------------------------------- architect.ts: bridge_push_task
\* variant: only the first dependency is looked up
PushTask_Validate_FirstOnly(p) ==
    /\ Call(p, "bridge_push_task")
    /\ uuids + Pending(Procs) < MaxTasks
    /\ \E validated \in PushInputs, depends_on \in DependsOnInputs :
         LET params == [priority |-> validated.priority, category |-> validated.category,
                        title |-> "t0", depends_on |-> depends_on,
                        created_by |-> "architect", assigned_to |-> validated.assign_to]
             missing == {i \in DOMAIN depends_on : i = 1 /\ ~Exists(tasks, depends_on[i])}
         IN  IF missing # {}
               THEN Return(p, Err("push_task", None, "DependencyNotFound", Null))
               ELSE Goto(p, "push_seq", [NoLoc EXCEPT !.op = "push_task", !.arg = params])
    /\ calls' = calls + 1
    /\ UNCHANGED <<sessions, projectState, store, clock, uuids>>

\* lines 96-103: every dependency must exist, else throw
PushTask_Validate(p) ==
    /\ Call(p, "bridge_push_task")
    /\ uuids + Pending(Procs) < MaxTasks
    /\ \E validated \in PushInputs, depends_on \in DependsOnInputs :
         LET params == [priority |-> validated.priority, category |-> validated.category,
                        title |-> "t0", depends_on |-> depends_on,
                        created_by |-> "architect", assigned_to |-> validated.assign_to]
             missing == {i \in DOMAIN depends_on : ~Exists(tasks, depends_on[i])}
         IN  IF missing # {}
               THEN Return(p, Err("push_task", None, "DependencyNotFound", Null))
               ELSE Goto(p, "push_seq", [NoLoc EXCEPT !.op = "push_task", !.arg = params])
    /\ calls' = calls + 1
    /\ UNCHANGED <<sessions, projectState, store, clock, uuids>>

\* variant: the counter is incremented once and read from then on
nextSequence_ReadOnly(counter) == IF counter = 0 THEN 1 ELSE counter

\* createTask lines 266-267: uuidv4(), then
\* UPDATE sequence_counter SET value = value + 1 ... RETURNING value
nextSequence(counter) == counter + 1

PushTask_NextSequence(p) ==
    /\ pc[p] = "push_seq"
    /\ uuids' = uuids + 1
    /\ seqCounter' = nextSequence(seqCounter)
    /\ Goto(p, "push_insert", [loc[p] EXCEPT !.id = uuids + 1, !.sequence = nextSequence(seqCounter)])
    /\ UNCHANGED <<sessions, projectState, tasks, clars, events, clock, calls>>

\* createTask lines 269-292: the INSERT
PushTask_Insert(p) ==
    /\ pc[p] = "push_insert"
    /\ tasks' = tasks @@ (loc[p].id :> NewTaskRow(loc[p].id, loc[p].sequence, loc[p].arg))
    /\ Goto(p, "push_log", loc[p])
    /\ UNCHANGED <<sessions, projectState, seqCounter, clars, events, clock, uuids, calls>>

\* lines 118-131: logEvent, then queue_position for the answer; the reads of
\* getQueuePosition write nothing and are taken on the store of this step
PushTask_LogEvent(p) ==
    /\ pc[p] = "push_log"
    /\ events' = logEvent(events, "architect", "task_created", loc[p].id, None)
    /\ Return(p, Ok("push_task", loc[p].id, getQueuePosition(tasks, loc[p].id)))
    /\ UNCHANGED <<sessions, projectState, tasks, seqCounter, clars, clock, uuids, calls>>

\* ------------------------------------------ architect.ts: bridge_push_tasks
\* lines 166-168
PushTasks_Parse(p) ==
    /\ Call(p, "bridge_push_tasks")
    /\ \E batch \in BatchInputs, execution_order \in ExecutionOrders :
         /\ uuids + Pending(Procs) + Len(batch) <= MaxTasks
         /\ Goto(p, "batch_seq", [NoLoc EXCEPT !.op = "push_tasks", !.todo = batch,
                                                !.arg = execution_order])
    /\ calls' = calls + 1
    /\ UNCHANGED <<sessions, projectState, store, clock, uuids>>

\* lines 170-177 and createTask lines 266-267
PushTasks_NextSequence(p) ==
    /\ pc[p] = "batch_seq"
    /\ uuids' = uuids + 1
    /\ seqCounter' = nextSequence(seqCounter)
    /\ Goto(p, "batch_insert", [loc[p] EXCEPT !.id = uuids + 1, !.sequence = nextSequence(seqCounter)])
    /\ UNCHANGED <<sessions, projectState, tasks, clars, events, clock, calls>>

\* variant: the chain is built whatever execution_order says
BatchDependsOn_AnyOrder(execution_order, previousTaskId) ==
    IF previousTaskId # None THEN <<previousTaskId>> ELSE << >>

\* lines 171-189: depends_on is the previous task of a sequential batch
BatchDependsOn(execution_order, previousTaskId) ==
    IF execution_order = "sequential" /\ previousTaskId # None
      THEN <<previousTaskId>>
      ELSE << >>

\* createTask lines 269-292
PushTasks_Insert(p) ==
    /\ pc[p] = "batch_insert"
    /\ LET taskParams == Head(loc[p].todo)
           params == [priority |-> taskParams.priority, category |-> taskParams.category,
                      title |-> "t0",
                      depends_on |-> BatchDependsOn(loc[p].arg, loc[p].previousTaskId),
                      created_by |-> "architect", assigned_to |-> taskParams.assign_to]
       IN  tasks' = tasks @@ (loc[p].id :> NewTaskRow(loc[p].id, loc[p].sequence, params))
    /\ Goto(p, "batch_log", loc[p])
    /\ UNCHANGED <<sessions, projectState, seqCounter, clars, events, clock, uuids, calls>>

\* lines 191-205
PushTasks_LogEvent(p) ==
    /\ pc[p] = "batch_log"
    /\ events' = logEvent(events, "architect", "task_created", loc[p].id, None)
    /\ LET taskIds == Append(loc[p].taskIds, loc[p].id)
       IN  IF Tail(loc[p].todo) = << >>
             THEN Return(p, Ok("push_tasks", loc[p].id, Len(taskIds)))
             ELSE Goto(p, "batch_seq", [loc[p] EXCEPT !.todo = Tail(@), !.taskIds = taskIds,
                                                       !.previousTaskId = loc[p].id,
                                                       !.id = None, !.sequence = 0])
    /\ UNCHANGED <<sessions, projectState, tasks, seqCounter, clars, clock, uuids, calls>>

\* ------------------------------------------------- database.ts: scheduling
\* variant: ... AND assigned_to = ?
MatchesPull_AssignedOnly(row, categories, assigned_to) ==
    /\ row.status = "queued"
    /\ (Len(categories) > 0 => row.category \in Range(categories))
    /\ (assigned_to # Null => row.assigned_to = assigned_to)

\* WHERE status = 'queued' [AND category IN (...)] [AND (assigned_to = ? OR assigned_to IS NULL)]
MatchesPull(row, categories, assigned_to) ==
    /\ row.status = "queued"
    /\ (Len(categories) > 0 => row.category \in Range(categories))
    /\ (assigned_to # Null => (row.assigned_to = assigned_to \/ row.assigned_to = Null))

\* variant: ORDER BY sequence ASC alone
Precedes_SequenceOnly(a, b) == a.sequence < b.sequence

\* ORDER BY CASE priority ... END, sequence ASC
Precedes(a, b) ==
    \/ PriorityRank(a.priority) < PriorityRank(b.priority)
    \/ (PriorityRank(a.priority) = PriorityRank(b.priority) /\ a.sequence < b.sequence)

RECURSIVE OrderByPrioritySequence(_, _)
OrderByPrioritySequence(T, S) ==
    IF S = {} THEN << >>
    ELSE LET first == CHOOSE x \in S : \A y \in S \ {x} :
                        \/ Precedes(T[x], T[y])
                        \/ (~Precedes(T[y], T[x]) /\ x < y)
         IN  <<first>> \o OrderByPrioritySequence(T, S \ {first})

\* pullNextTask lines 386-410: the queued rows, in scan order
QueuedRows(T, categories, assigned_to) ==
    OrderByPrioritySequence(T, {id \in DOMAIN T : MatchesPull(T[id], categories, assigned_to)})

\* variant: ... AND status = 'queued'
depCheck_QueuedOnly(T, depends_on) ==
    Cardinality({id \in DOMAIN T : id \in Range(depends_on) /\ T[id].status = "queued"})

\* pullNextTask lines 419-424:
\* SELECT COUNT(*) FROM tasks WHERE id IN (...) AND status != 'completed'
depCheck(T, depends_on) ==
    Cardinality({id \in DOMAIN T : id \in Range(depends_on) /\ T[id].status # "completed"})

\* variant: the loop gives up at the first row whose dependencies are unmet
FirstEligible_HeadOnly(T, rows) ==
    IF rows = << >> THEN None
    ELSE IF Len(T[Head(rows)].depends_on) = 0 THEN Head(rows)
    ELSE IF depCheck(T, T[Head(rows)].depends_on) = 0 THEN Head(rows)
    ELSE None

\* pullNextTask lines 413-430 on one store state
RECURSIVE FirstEligible(_, _)
FirstEligible(T, rows) ==
    IF rows = << >> THEN None
    ELSE IF Len(T[Head(rows)].depends_on) = 0 THEN Head(rows)
    ELSE IF depCheck(T, T[Head(rows)].depends_on) = 0 THEN Head(rows)
    ELSE FirstEligible(T, Tail(rows))

pullNextTask(T, categories, assigned_to) ==
    FirstEligible(T, QueuedRows(T, categories, assigned_to))

\* --------------------------------------------------- database.ts: listing
\* listTasks lines 361-368: ORDER BY CASE priority WHEN ... END, sequence ASC
ListRank(priority) ==
    CASE priority = "critical" -> 1
      [] priority = "high" -> 2
      [] priority = "normal" -> 3
      [] priority = "low" -> 4

\* variant: ORDER BY sequence ASC alone
ListPrecedes_SequenceOnly(a, b) == a.sequence < b.sequence

ListPrecedes(a, b) ==
    \/ ListRank(a.priority) < ListRank(b.priority)
    \/ (ListRank(a.priority) = ListRank(b.priority) /\ a.sequence < b.sequence)

\* the rows of S in the order of the ORDER BY: row i has i - 1 rows before it
ListOrder(T, S) ==
    [i \in 1..Cardinality(S) |->
       CHOOSE x \in S :
         Cardinality({y \in S : \/ ListPrecedes(T[y], T[x])
                                \/ (~ListPrecedes(T[x], T[y]) /\ y < x)}) = i - 1]

\* listTasks lines 338-378: status is absent or the set of the statuses asked
\* for (one status or an array), assigned_to is absent (Null) or a role,
\* limit is absent (None) or the LIMIT
listTasks(T, status, assigned_to, limit) ==
    LET rows == ListOrder(T, {id \in DOMAIN T :
                                /\ (status.given => T[id].status \in status.of)
                                /\ (assigned_to # Null => T[id].assigned_to = assigned_to)})
    IN  IF limit # None /\ limit < Len(rows) THEN SubSeq(rows, 1, limit) ELSE rows

\* getTaskCountsByStatus lines 433-452
getTaskCountsByStatus(T) ==
    [s \in Statuses |-> Cardinality({id \in DOMAIN T : T[id].status = s})]

\* what a finished scan gives back to the handler that ran it
PullResult(p, t) ==
    IF loc[p].op = "complete_task"
      THEN [Ok("complete_task", loc[p].tid, t) EXCEPT !.ok = loc[p].success]
      ELSE Ok("pull_task", t, t)

\* the for loop of lines 413-428 up to its next SQL statement
Scan(p, rows) ==
    IF rows = << >> THEN Return(p, PullResult(p, None))
    ELSE IF Len(tasks[Head(rows)].depends_on) = 0 THEN Return(p, PullResult(p, Head(rows)))
    ELSE Goto(p, "pull_dep", [loc[p] EXCEPT !.scan = rows])

\* ------------------------------------------ executor.ts: bridge_pull_task
\* lines 70-73 and pullNextTask lines 386-417: the SELECT and the loop up to
\* its first dependency check
PullTask_Query(p, categories) ==
    LET rows == QueuedRows(tasks, categories, "executor")
    IN  IF rows = << >> THEN Return(p, Ok("pull_task", None, None))
        ELSE IF Len(tasks[Head(rows)].depends_on) = 0
          THEN Return(p, Ok("pull_task", Head(rows), Head(rows)))
        ELSE Goto(p, "pull_dep", [NoLoc EXCEPT !.op = "pull_task", !.scan = rows,
                                               !.filter = categories])

PullTask_Select(p) ==
    /\ Call(p, "bridge_pull_task")
    /\ \E categories \in CategoryFilters : PullTask_Query(p, categories)
    /\ calls' = calls + 1
    /\ UNCHANGED <<sessions, projectState, store, clock, uuids>>

\* variant: the scan claims the task it returns
PullTask_DepCheck_Claiming(p) ==
    /\ pc[p] = "pull_dep"
    /\ LET rows == loc[p].scan
       IN  IF depCheck(tasks, tasks[Head(rows)].depends_on) = 0
             THEN /\ Return(p, PullResult(p, Head(rows)))
                  /\ tasks' = updateTask(tasks, Head(rows), [status |-> "claimed"])
             ELSE /\ Scan(p, Tail(rows))
                  /\ tasks' = tasks
    /\ UNCHANGED <<sessions, projectState, seqCounter, clars, events, clock, uuids, calls>>

\* one dependency check of the scan (of bridge_pull_task or of the scan that
\* ends bridge_complete_task)
PullTask_DepCheck(p) ==
    /\ pc[p] = "pull_dep"
    /\ LET rows == loc[p].scan
       IN  IF depCheck(tasks, tasks[Head(rows)].depends_on) = 0
             THEN Return(p, PullResult(p, Head(rows)))
             ELSE Scan(p, Tail(rows))
    /\ UNCHANGED <<sessions, projectState, store, clock, uuids, calls>>

\* ----------------------------------------- executor.ts: bridge_claim_task
\* lines 112-119: getTask and the checks on its row
ClaimTask_Check(p, tid) ==
    IF ~Exists(tasks, tid)
      THEN Return(p, Err("claim_task", tid, "NotFound", Null))
    ELSE IF tasks[tid].status # "queued"
      THEN Return(p, Err("claim_task", tid, "InvalidStateTransition", tasks[tid].status))
    ELSE IF Len(tasks[tid].depends_on) > 0
      THEN Goto(p, "claim_deps", [NoLoc EXCEPT !.op = "claim_task", !.tid = tid,
                                                !.todo = tasks[tid].depends_on])
    ELSE Goto(p, "claim_update", [NoLoc EXCEPT !.op = "claim_task", !.tid = tid])

ClaimTask_GetTask(p) ==
    /\ Call(p, "bridge_claim_task")
    /\ \E tid \in TaskIds : ClaimTask_Check(p, tid)
    /\ calls' = calls + 1
    /\ UNCHANGED <<sessions, projectState, store, clock, uuids>>

\* lines 122-130: one getTask per dependency, then the check
ClaimTask_GetDep(p) ==
    /\ pc[p] = "claim_deps"
    /\ LET d == Head(loc[p].todo)
           incomplete == loc[p].incomplete \cup
                           (IF Exists(tasks, d) /\ tasks[d].status # "completed" THEN {d} ELSE {})
       IN  IF Tail(loc[p].todo) # << >>
             THEN Goto(p, "claim_deps", [loc[p] EXCEPT !.todo = Tail(@), !.incomplete = incomplete])
           ELSE IF incomplete # {}
             THEN Return(p, Err("claim_task", loc[p].tid, "DependencyUnmet", Null))
           ELSE Goto(p, "claim_update", [loc[p] EXCEPT !.todo = << >>])
    /\ UNCHANGED <<sessions, projectState, store, clock, uuids, calls>>

\* lines 132-136
ClaimTask_Update(p) ==
    /\ pc[p] = "claim_update"
    /\ LET updates == [status |-> "claimed", assigned_to |-> "executor", claimed_at |-> clock + 1]
       IN  /\ tasks' = updateTask(tasks, loc[p].tid, updates)
           /\ IF updateTaskChanged(tasks, loc[p].tid, updates)
                THEN Goto(p, "claim_log", [loc[p] EXCEPT !.success = TRUE])
                ELSE Return(p, [Ok("claim_task", loc[p].tid, None) EXCEPT !.ok = FALSE])
    /\ clock' = clock + 1
    /\ UNCHANGED <<sessions, projectState, seqCounter, clars, events, uuids, calls>>

\* lines 138-160
ClaimTask_LogEvent(p) ==
    /\ pc[p] = "claim_log"
    /\ events' = logEvent(events, "executor", "task_claimed", loc[p].tid, None)
    /\ Return(p, Ok("claim_task", loc[p].tid, None))
    /\ UNCHANGED <<sessions, projectState, tasks, seqCounter, clars, clock, uuids, calls>>

\* ------------------------------------ executor.ts: bridge_report_progress
\* lines 187-203
ReportProgress_GetTask(p) ==
    /\ Call(p, "bridge_report_progress")
    /\ \E tid \in TaskIds, status \in ProgressInputs :
         IF ~Exists(tasks, tid)
           THEN /\ Return(p, Err("report_progress", tid, "NotFound", Null))
                /\ clock' = clock
         ELSE IF tasks[tid].status \notin {"claimed", "in_progress"}
           THEN /\ Return(p, Err("report_progress", tid, "InvalidStateTransition", tasks[tid].status))
                /\ clock' = clock
         ELSE IF tasks[tid].status = "claimed"
           THEN /\ Goto(p, "progress_update",
                        [NoLoc EXCEPT !.op = "report_progress", !.tid = tid,
                                      !.arg = [status |-> status, started_at |-> clock + 1]])
                /\ clock' = clock + 1
         ELSE /\ Goto(p, "progress_update",
                      [NoLoc EXCEPT !.op = "report_progress", !.tid = tid,
                                    !.arg = [status |-> status]])
              /\ clock' = clock
    /\ calls' = calls + 1
    /\ UNCHANGED <<sessions, projectState, store, uuids>>

\* line 205
ReportProgress_Update(p) ==
    /\ pc[p] = "progress_update"
    /\ tasks' = updateTask(tasks, loc[p].tid, loc[p].arg)
    /\ Goto(p, "progress_log", loc[p])
    /\ UNCHANGED <<sessions, projectState, seqCounter, clars, events, clock, uuids, calls>>

\* lines 207-222
ReportProgress_LogEvent(p) ==
    /\ pc[p] = "progress_log"
    /\ events' = logEvent(events, "executor", "progress_reported", loc[p].tid, None)
    /\ Return(p, Ok("report_progress", loc[p].tid, None))
    /\ UNCHANGED <<sessions, projectState, tasks, seqCounter, clars, clock, uuids, calls>>

\* -------------------------------------- executor.ts: bridge_complete_task
\* lines 252-259: getTask and the checks on its row
CompleteTask_Check(p, tid, result) ==
    IF ~Exists(tasks, tid)
      THEN Return(p, Err("complete_task", tid, "NotFound", Null))
    ELSE IF tasks[tid].status \notin {"claimed", "in_progress"}
      THEN Return(p, Err("complete_task", tid, "InvalidStateTransition", tasks[tid].status))
    ELSE Goto(p, "complete_update",
              [NoLoc EXCEPT !.op = "complete_task", !.tid = tid, !.arg = result])

CompleteTask_GetTask(p) ==
    /\ Call(p, "bridge_complete_task")
    /\ \E tid \in TaskIds, result \in ResultInputs : CompleteTask_Check(p, tid, result)
    /\ calls' = calls + 1
    /\ UNCHANGED <<sessions, projectState, store, clock, uuids>>

\* lines 261-265
CompleteTask_Update(p) ==
    /\ pc[p] = "complete_update"
    /\ LET updates == [status |-> "completed", completed_at |-> clock + 1, result |-> loc[p].arg]
       IN  /\ tasks' = updateTask(tasks, loc[p].tid, updates)
           /\ IF updateTaskChanged(tasks, loc[p].tid, updates)
                THEN Goto(p, "complete_log", [loc[p] EXCEPT !.success = TRUE])
                ELSE Goto(p, "complete_pull", loc[p])
    /\ clock' = clock + 1
    /\ UNCHANGED <<sessions, projectState, seqCounter, clars, events, uuids, calls>>

\* lines 267-278
CompleteTask_LogEvent(p) ==
    /\ pc[p] = "complete_log"
    /\ events' = logEvent(events, "executor", "task_completed", loc[p].tid, None)
    /\ Goto(p, "complete_pull", loc[p])
    /\ UNCHANGED <<sessions, projectState, tasks, seqCounter, clars, clock, uuids, calls>>

\* lines 280-293: pullNextTask({ assigned_to: 'executor' }) for next_task
CompleteTask_PullNext(p) ==
    /\ pc[p] = "complete_pull"
    /\ Scan(p, QueuedRows(tasks, << >>, "executor"))
    /\ UNCHANGED <<sessions, projectState, store, clock, uuids, calls>>

\* ------------------------------------------ executor.ts: bridge_fail_task
\* lines 319-335
FailTask_GetTask(p) ==
    /\ Call(p, "bridge_fail_task")
    /\ \E tid \in TaskIds, error \in ErrorInputs :
         IF ~Exists(tasks, tid)
           THEN Return(p, Err("fail_task", tid, "NotFound", Null))
         ELSE IF tasks[tid].status \notin {"claimed", "in_progress", "blocked"}
           THEN Return(p, Err("fail_task", tid, "InvalidStateTransition", tasks[tid].status))
         ELSE Goto(p, "fail_update",
                   [NoLoc EXCEPT !.op = "fail_task", !.tid = tid,
                                 !.arg = [isNull |-> FALSE, success |-> FALSE, summary |-> error]])
    /\ calls' = calls + 1
    /\ UNCHANGED <<sessions, projectState, store, clock, uuids>>

\* lines 337-341
FailTask_Update(p) ==
    /\ pc[p] = "fail_update"
    /\ LET updates == [status |-> "failed", completed_at |-> clock + 1, result |-> loc[p].arg]
       IN  /\ tasks' = updateTask(tasks, loc[p].tid, updates)
           /\ IF updateTaskChanged(tasks, loc[p].tid, updates)
                THEN Goto(p, "fail_log", [loc[p] EXCEPT !.success = TRUE])
                ELSE Return(p, [Ok("fail_task", loc[p].tid, None) EXCEPT !.ok = FALSE])
    /\ clock' = clock + 1
    /\ UNCHANGED <<sessions, projectState, seqCounter, clars, events, uuids, calls>>

\* lines 343-360
FailTask_LogEvent(p) ==
    /\ pc[p] = "fail_log"
    /\ events' = logEvent(events, "executor", "task_failed", loc[p].tid, None)
    /\ Return(p, Ok("fail_task", loc[p].tid, None))
    /\ UNCHANGED <<sessions, projectState, tasks, seqCounter, clars, clock, uuids, calls>>


\* ------------------------------------------ database.ts: clarifications
\* INSERT INTO clarifications (id, task_id, question, options); response and
\* responded_at stay NULL, created_at defaults to datetime('now')
createClarification(C, task_id, now) ==
    Append(C, [id |-> Len(C) + 1, task_id |-> task_id, response |-> Null,
               created_at |-> now, responded_at |-> NoTime])

\* UPDATE clarifications SET response = ?, responded_at = datetime('now') WHERE id = ?
respondToClarification(C, id, response, now) ==
    IF id \in DOMAIN C
      THEN [C EXCEPT ![id] = [@ EXCEPT !.response = response, !.responded_at = now]]
      ELSE C

\* result.changes > 0
respondToClarificationChanged(C, id) == id \in DOMAIN C

\* ------------------------------ executor.ts: bridge_request_clarification
\* variant: a blocked task may ask again
RequestClarification_GetTask_AlsoBlocked(p) ==
    /\ Call(p, "bridge_request_clarification")
    /\ \E tid \in TaskIds :
         IF ~Exists(tasks, tid)
           THEN Return(p, Err("request_clarification", tid, "NotFound", Null))
         ELSE IF tasks[tid].status \notin {"claimed", "in_progress", "blocked"}
           THEN Return(p, Err("request_clarification", tid, "InvalidStateTransition", tasks[tid].status))
         ELSE Goto(p, "clarify_insert", [NoLoc EXCEPT !.op = "request_clarification", !.tid = tid])
    /\ calls' = calls + 1
    /\ UNCHANGED <<sessions, projectState, store, clock, uuids>>

\* lines 382-389
RequestClarification_GetTask(p) ==
    /\ Call(p, "bridge_request_clarification")
    /\ \E tid \in TaskIds :
         IF ~Exists(tasks, tid)
           THEN Return(p, Err("request_clarification", tid, "NotFound", Null))
         ELSE IF tasks[tid].status \notin {"claimed", "in_progress"}
           THEN Return(p, Err("request_clarification", tid, "InvalidStateTransition", tasks[tid].status))
         ELSE Goto(p, "clarify_insert", [NoLoc EXCEPT !.op = "request_clarification", !.tid = tid])
    /\ calls' = calls + 1
    /\ UNCHANGED <<sessions, projectState, store, clock, uuids>>

\* lines 392-396
RequestClarification_Create(p) ==
    /\ pc[p] = "clarify_insert"
    /\ clars' = createClarification(clars, loc[p].tid, clock + 1)
    /\ clock' = clock + 1
    /\ Goto(p, "clarify_update", [loc[p] EXCEPT !.id = Len(clars) + 1])
    /\ UNCHANGED <<sessions, projectState, tasks, seqCounter, events, uuids, calls>>

\* line 399
RequestClarification_Update(p) ==
    /\ pc[p] = "clarify_update"
    /\ tasks' = updateTask(tasks, loc[p].tid, [status |-> "blocked"])
    /\ Goto(p, "clarify_log", loc[p])
    /\ UNCHANGED <<sessions, projectState, seqCounter, clars, events, clock, uuids, calls>>

\* lines 401-416
RequestClarification_LogEvent(p) ==
    /\ pc[p] = "clarify_log"
    /\ events' = logEvent(events, "executor", "clarification_requested", loc[p].tid, loc[p].id)
    /\ Return(p, Ok("request_clarification", loc[p].tid, loc[p].id))
    /\ UNCHANGED <<sessions, projectState, tasks, seqCounter, clars, clock, uuids, calls>>

\* ----------------------------------------- architect.ts: bridge_update_task
\* lines 234-242
UpdateTask_GetTask(p) ==
    /\ Call(p, "bridge_update_task")
    /\ \E tid \in TaskIds, updates \in UpdateInputs :
         IF ~Exists(tasks, tid)
           THEN Return(p, Err("update_task", tid, "NotFound", Null))
         ELSE IF tasks[tid].status \in {"completed", "failed", "cancelled"}
           THEN Return(p, Err("update_task", tid, "InvalidStateTransition", tasks[tid].status))
         ELSE Goto(p, "update_update", [NoLoc EXCEPT !.op = "update_task", !.tid = tid, !.arg = updates])
    /\ calls' = calls + 1
    /\ UNCHANGED <<sessions, projectState, store, clock, uuids>>

\* lines 234-242, the call that clears the assignee
UnassignTask_GetTask(p) ==
    /\ Call(p, "bridge_update_task")
    /\ \E tid \in TaskIds, updates \in UnassignInputs :
         IF ~Exists(tasks, tid)
           THEN Return(p, Err("update_task", tid, "NotFound", Null))
         ELSE IF tasks[tid].status \in {"completed", "failed", "cancelled"}
           THEN Return(p, Err("update_task", tid, "InvalidStateTransition", tasks[tid].status))
         ELSE Goto(p, "update_update", [NoLoc EXCEPT !.op = "update_task", !.tid = tid, !.arg = updates])
    /\ calls' = calls + 1
    /\ UNCHANGED <<sessions, projectState, store, clock, uuids>>

\* line 244
UpdateTask_Update(p) ==
    /\ pc[p] = "update_update"
    /\ tasks' = updateTask(tasks, loc[p].tid, loc[p].arg)
    /\ IF updateTaskChanged(tasks, loc[p].tid, loc[p].arg)
         THEN Goto(p, "update_log", [loc[p] EXCEPT !.success = TRUE])
         ELSE Return(p, [Ok("update_task", loc[p].tid, None) EXCEPT !.ok = FALSE])
    /\ UNCHANGED <<sessions, projectState, seqCounter, clars, events, clock, uuids, calls>>

\* lines 246-255
UpdateTask_LogEvent(p) ==
    /\ pc[p] = "update_log"
    /\ events' = logEvent(events, "architect", "task_updated", loc[p].tid, None)
    /\ Return(p, Ok("update_task", loc[p].tid, None))
    /\ UNCHANGED <<sessions, projectState, tasks, seqCounter, clars, clock, uuids, calls>>

\* ----------------------------------------- architect.ts: bridge_cancel_task
\* lines 272-279
CancelTask_GetTask(p) ==
    /\ Call(p, "bridge_cancel_task")
    /\ \E tid \in TaskIds :
         IF ~Exists(tasks, tid)
           THEN Return(p, Err("cancel_task", tid, "NotFound", Null))
         ELSE IF tasks[tid].status \notin {"queued", "blocked"}
           THEN Return(p, Err("cancel_task", tid, "InvalidStateTransition", tasks[tid].status))
         ELSE Goto(p, "cancel_update", [NoLoc EXCEPT !.op = "cancel_task", !.tid = tid])
    /\ calls' = calls + 1
    /\ UNCHANGED <<sessions, projectState, store, clock, uuids>>

\* lines 281-284
CancelTask_Update(p) ==
    /\ pc[p] = "cancel_update"
    /\ LET updates == [status |-> "cancelled", completed_at |-> clock + 1]
       IN  /\ tasks' = updateTask(tasks, loc[p].tid, updates)
           /\ IF updateTaskChanged(tasks, loc[p].tid, updates)
                THEN Goto(p, "cancel_log", [loc[p] EXCEPT !.success = TRUE])
                ELSE Return(p, [Ok("cancel_task", loc[p].tid, None) EXCEPT !.ok = FALSE])
    /\ clock' = clock + 1
    /\ UNCHANGED <<sessions, projectState, seqCounter, clars, events, uuids, calls>>

\* lines 286-295
CancelTask_LogEvent(p) ==
    /\ pc[p] = "cancel_log"
    /\ events' = logEvent(events, "architect", "task_cancelled", loc[p].tid, None)
    /\ Return(p, Ok("cancel_task", loc[p].tid, None))
    /\ UNCHANGED <<sessions, projectState, tasks, seqCounter, clars, clock, uuids, calls>>

\* ------------------------------- architect.ts: bridge_respond_clarification
\* variant: the response also puts the owning task back to in_progress
RespondClarification_Respond_Unblocks(p) ==
    /\ Call(p, "bridge_respond_clarification")
    /\ \E cid \in 1..(Len(clars) + 1), response \in ResponseInputs :
         /\ clars' = respondToClarification(clars, cid, response, clock + 1)
         /\ IF respondToClarificationChanged(clars, cid)
              THEN /\ Goto(p, "respond_log", [NoLoc EXCEPT !.op = "respond_clarification", !.id = cid])
                   /\ tasks' = updateTask(tasks, clars[cid].task_id, [status |-> "in_progress"])
              ELSE /\ Return(p, Err("respond_clarification", None, "NotFound", Null))
                   /\ tasks' = tasks
    /\ clock' = clock + 1
    /\ calls' = calls + 1
    /\ UNCHANGED <<sessions, projectState, seqCounter, events, uuids>>

\* lines 312-315; the caller names any clarification id, known or not
RespondClarification_Respond(p) ==
    /\ Call(p, "bridge_respond_clarification")
    /\ \E cid \in 1..(Len(clars) + 1), response \in ResponseInputs :
         /\ clars' = respondToClarification(clars, cid, response, clock + 1)
         /\ IF respondToClarificationChanged(clars, cid)
              THEN Goto(p, "respond_log", [NoLoc EXCEPT !.op = "respond_clarification", !.id = cid])
              ELSE Return(p, Err("respond_clarification", None, "NotFound", Null))
    /\ clock' = clock + 1
    /\ calls' = calls + 1
    /\ UNCHANGED <<sessions, projectState, tasks, seqCounter, events, uuids>>

\* lines 317-323: the event carries no task_id
RespondClarification_LogEvent(p) ==
    /\ pc[p] = "respond_log"
    /\ events' = logEvent(events, "architect", "clarification_responded", None, loc[p].id)
    /\ Return(p, Ok("respond_clarification", None, loc[p].id))
    /\ UNCHANGED <<sessions, projectState, tasks, seqCounter, clars, clock, uuids, calls>>


Next ==
    \E p \in Procs :
        \/ PushTask_Validate(p)
        \/ PushTask_NextSequence(p)
        \/ PushTask_Insert(p)
        \/ PushTask_LogEvent(p)
        \/ PullTask_Select(p)
        \/ PullTask_DepCheck(p)
        \/ ClaimTask_GetTask(p)
        \/ ClaimTask_GetDep(p)
        \/ ClaimTask_Update(p)
        \/ ClaimTask_LogEvent(p)
        \/ ReportProgress_GetTask(p)
        \/ ReportProgress_Update(p)
        \/ ReportProgress_LogEvent(p)
        \/ CompleteTask_GetTask(p)
        \/ CompleteTask_Update(p)
        \/ CompleteTask_LogEvent(p)
        \/ CompleteTask_PullNext(p)
        \/ FailTask_GetTask(p)
        \/ FailTask_Update(p)
        \/ FailTask_LogEvent(p)
        \/ RequestClarification_GetTask(p)
        \/ RequestClarification_Create(p)
        \/ RequestClarification_Update(p)
        \/ RequestClarification_LogEvent(p)
        \/ UpdateTask_GetTask(p)
        \/ UpdateTask_Update(p)
        \/ UpdateTask_LogEvent(p)
        \/ CancelTask_GetTask(p)
        \/ CancelTask_Update(p)
        \/ CancelTask_LogEvent(p)
        \/ RespondClarification_Respond(p)
        \/ RespondClarification_LogEvent(p)

Spec == Init /\ [][Next]_vars

\* ------------------------------------------------ clarification handlers
\* database.ts initialize: CREATE TABLE IF NOT EXISTS keeps the rows of an
\* existing store.  The store after bridge_push_task and bridge_claim_task
\* of one task.
ClaimedTask ==
    [NewTaskRow(1, 1, [priority |-> "absent", category |-> "absent", title |-> "t0",
                       depends_on |-> << >>, created_by |-> "architect",
                       assigned_to |-> "absent"])
       EXCEPT !.status = "claimed", !.assigned_to = "executor", !.claimed_at = 1]

InitClarify ==
    /\ tasks = (1 :> ClaimedTask)
    /\ seqCounter = 1
    /\ clars = << >>
    /\ events = logEvent(logEvent(<< >>, "architect", "task_created", 1, None),
                         "executor", "task_claimed", 1, None)
    /\ clock = 1
    /\ uuids = 1
    /\ calls = 0
    /\ pc = [p \in Procs |-> "idle"]
    /\ loc = [p \in Procs |-> NoLoc]
    /\ ret = NoRet
    /\ mode \in Deployments
    /\ sessions = << >>
    /\ projectState = NoProjectState
    /\ pullFilter = << >>

NextClarify ==
    \E p \in Procs :
        \/ RequestClarification_GetTask(p)
        \/ RequestClarification_Create(p)
        \/ RequestClarification_Update(p)
        \/ RequestClarification_LogEvent(p)
        \/ RespondClarification_Respond(p)
        \/ RespondClarification_LogEvent(p)

SpecClarify == InitClarify /\ [][NextClarify]_vars

\* --------------------------------------------------------- task creation
\* index.ts getMode line 38: both servers started with the default mode
CreateDeployments == {[p1 |-> "full", p2 |-> "full"]}

InitCreate ==
    /\ tasks = << >>
    /\ seqCounter = 0
    /\ clars = << >>
    /\ events = << >>
    /\ clock = 0
    /\ uuids = 0
    /\ calls = 0
    /\ pc = [p \in Procs |-> "idle"]
    /\ loc = [p \in Procs |-> NoLoc]
    /\ ret = NoRet
    /\ mode \in CreateDeployments
    /\ sessions = << >>
    /\ projectState = NoProjectState
    /\ pullFilter = << >>

NextCreate ==
    \E p \in Procs :
        \/ PushTask_Validate(p)
        \/ PushTask_NextSequence(p)
        \/ PushTask_Insert(p)
        \/ PushTask_LogEvent(p)
        \/ PushTasks_Parse(p)
        \/ PushTasks_NextSequence(p)
        \/ PushTasks_Insert(p)
        \/ PushTasks_LogEvent(p)

SpecCreate == InitCreate /\ [][NextCreate]_vars

\* ------------------------------------------------------ storage contention
\* the labels at which the next statement of the handler is a write
WriteLabels ==
    {"push_seq", "push_insert", "push_log", "batch_seq", "batch_insert", "batch_log",
     "claim_update", "claim_log", "progress_update", "progress_log",
     "complete_update", "complete_log", "fail_update", "fail_log",
     "clarify_insert", "clarify_update", "clarify_log",
     "update_update", "update_log", "cancel_update", "cancel_log", "respond_log"}

\* database.ts line 92 (busy_timeout = 5000): a write that waits longer for the
\* write lock throws SQLITE_BUSY; no handler catches it, index.ts lines 152-172
\* turn it into an error result; what the handler wrote before stays written
StorageBusy(p) ==
    /\ pc[p] \in WriteLabels
    /\ Return(p, Err(loc[p].op, loc[p].tid, "TransientStorageContention", Null))
    /\ UNCHANGED <<sessions, projectState, store, clock, uuids, calls>>

\* a fresh store, or the store with one claimed task
InitBusy == Init \/ InitClarify

NextBusy ==
    \E p \in Procs :
        \/ PushTasks_Parse(p)
        \/ PushTasks_NextSequence(p)
        \/ PushTasks_Insert(p)
        \/ PushTasks_LogEvent(p)
        \/ RequestClarification_GetTask(p)
        \/ RequestClarification_Create(p)
        \/ RequestClarification_Update(p)
        \/ RequestClarification_LogEvent(p)
        \/ StorageBusy(p)

SpecBusy == InitBusy /\ [][NextBusy]_vars

\* ------------------------------------------------ database.ts: decisions
\* index.ts getAgentRole
getAgentRole(m) == IF m = "executor" THEN "executor" ELSE "architect"

\* Array.prototype.slice(-n)
SliceLast(s, n) == IF Len(s) <= n THEN s ELSE SubSeq(s, Len(s) - n + 1, Len(s))

\* variant: slice(0, 50), the first 50 are kept
addDecision_KeepFirst(recent_decisions, decision) ==
    SubSeq(Append(recent_decisions, decision), 1,
           IF Len(recent_decisions) + 1 <= DecisionsKept
             THEN Len(recent_decisions) + 1 ELSE DecisionsKept)

\* addDecision line 665: [...state.recent_decisions, decision].slice(-50)
addDecision(recent_decisions, decision) ==
    SliceLast(Append(recent_decisions, decision), DecisionsKept)

\* ------------------------------------------ shared.ts: bridge_log_decision
\* shared.ts lines 268-276, addDecision lines 655-664: the decision is built
\* (uuidv4, made_at) and the project state is read
LogDecision_GetProjectState(p) ==
    /\ Call(p, "bridge_log_decision")
    /\ uuids' = uuids + 1
    /\ clock' = clock + 1
    /\ Goto(p, "decision_update",
            [NoLoc EXCEPT !.op = "log_decision", !.id = uuids + 1,
                          !.arg = projectState.recent_decisions])
    /\ calls' = calls + 1
    /\ UNCHANGED <<sessions, projectState, store>>

\* addDecision lines 665-668: UPDATE project_state SET recent_decisions = ?
LogDecision_Update(p) ==
    /\ pc[p] = "decision_update"
    /\ projectState' = [projectState EXCEPT
                          !.recent_decisions = addDecision(loc[p].arg, loc[p].id)]
    /\ Goto(p, "decision_log", loc[p])
    /\ UNCHANGED <<sessions, store, clock, uuids, calls>>

\* shared.ts lines 278-287
LogDecision_LogEvent(p) ==
    /\ pc[p] = "decision_log"
    /\ events' = logEvent(events, getAgentRole(mode[p]), "decision_logged", None, loc[p].id)
    /\ Return(p, Ok("log_decision", None, loc[p].id))
    /\ UNCHANGED <<sessions, projectState, tasks, seqCounter, clars, clock, uuids, calls>>

\* the project state after k decisions were logged one after the other
SeededDecisions == {0, DecisionsKept - 1, DecisionsKept}

InitDecisions ==
    /\ tasks = << >>
    /\ seqCounter = 0
    /\ clars = << >>
    /\ clock = 0
    /\ calls = 0
    /\ pc = [p \in Procs |-> "idle"]
    /\ loc = [p \in Procs |-> NoLoc]
    /\ ret = NoRet
    /\ mode \in Deployments
    /\ sessions = << >>
    /\ pullFilter = << >>
    /\ \E k \in SeededDecisions :
         /\ uuids = k
         /\ projectState = [NoProjectState EXCEPT !.recent_decisions = [i \in 1..k |-> i]]
         /\ events = [i \in 1..k |-> [id |-> i, agent |-> "architect",
                                      event_type |-> "decision_logged",
                                      task_id |-> None, payload |-> i]]

NextDecisions ==
    \E p \in Procs :
        \/ LogDecision_GetProjectState(p)
        \/ LogDecision_Update(p)
        \/ LogDecision_LogEvent(p)

SpecDecisions == InitDecisions /\ [][NextDecisions]_vars

\* --------------------------------------------- database.ts: project state
\* bridge_update_state: the validated object (UpdateStateSchema, shared.ts
\* lines 27-30); a field is absent, and current_focus may be null
UpdateStateInputs ==
    {<< >>,
     [current_focus |-> "f1"], [current_focus |-> Null],
     [known_issues |-> <<"i1">>], [known_issues |-> <<"i2">>], [known_issues |-> << >>],
     [current_focus |-> "f1", known_issues |-> <<"i1", "i2">>]}

\* variant: the supplied issues are added to the stored ones
updateProjectState_MergeIssues(P, updates) ==
    [f \in DOMAIN P |->
       IF f \notin DOMAIN updates THEN P[f]
       ELSE IF f = "known_issues" THEN P[f] \o updates[f]
       ELSE updates[f]]

\* updateProjectState lines 623-647:
\* UPDATE project_state SET <the fields supplied> WHERE id = 1
updateProjectState(P, updates) ==
    [f \in DOMAIN P |-> IF f \in DOMAIN updates THEN updates[f] ELSE P[f]]

\* lines 642 and 646: false without fields, else result.changes > 0 (the row
\* with id 1 is there since initialize)
updateProjectStateChanged(updates) == DOMAIN updates # {}

\* shared.ts lines 232-239: bridge_update_state
UpdateState_Update(p) ==
    /\ Call(p, "bridge_update_state")
    /\ \E validated \in UpdateStateInputs :
         IF DOMAIN validated = {}
           THEN /\ Return(p, [Ok("update_state", None, None) EXCEPT !.ok = FALSE])
                /\ projectState' = projectState
         ELSE /\ projectState' = updateProjectState(projectState, validated)
              /\ IF updateProjectStateChanged(validated)
                   THEN Goto(p, "state_log",
                             [NoLoc EXCEPT !.op = "update_state", !.arg = validated])
                   ELSE Return(p, [Ok("update_state", None, None) EXCEPT !.ok = FALSE])
    /\ calls' = calls + 1
    /\ UNCHANGED <<sessions, store, clock, uuids>>

\* shared.ts lines 241-249
UpdateState_LogEvent(p) ==
    /\ pc[p] = "state_log"
    /\ events' = logEvent(events, getAgentRole(mode[p]), "state_updated", None, None)
    /\ Return(p, Ok("update_state", None, None))
    /\ UNCHANGED <<sessions, projectState, tasks, seqCounter, clars, clock, uuids, calls>>

\* shared.ts lines 297-299: bridge_sync
Sync_Update(p) ==
    /\ Call(p, "bridge_sync")
    /\ LET timestamp == clock + 1
       IN  /\ projectState' = updateProjectState(projectState, [last_sync |-> timestamp])
           /\ clock' = timestamp
           /\ Goto(p, "sync_log", [NoLoc EXCEPT !.op = "sync", !.arg = timestamp])
    /\ calls' = calls + 1
    /\ UNCHANGED <<sessions, store, uuids>>

\* shared.ts lines 301-310
Sync_LogEvent(p) ==
    /\ pc[p] = "sync_log"
    /\ events' = logEvent(events, getAgentRole(mode[p]), "sync", None, loc[p].arg)
    /\ Return(p, Ok("sync", None, loc[p].arg))
    /\ UNCHANGED <<sessions, projectState, tasks, seqCounter, clars, clock, uuids, calls>>

NextState ==
    \E p \in Procs :
        \/ UpdateState_Update(p)
        \/ UpdateState_LogEvent(p)
        \/ Sync_Update(p)
        \/ Sync_LogEvent(p)
        \/ LogDecision_GetProjectState(p)
        \/ LogDecision_Update(p)
        \/ LogDecision_LogEvent(p)

SpecState == Init /\ [][NextState]_vars

\* ------------------------------------------------- database.ts: sessions
\* datetime('now') has a resolution of one second: the same second as the
\* latest timestamp handed out, or a later one
Now == {clock, clock + 1} \ {NoTime}

\* saveSessionContext lines 531-551: INSERT INTO sessions; resumed_at stays NULL
saveSessionContext(S, agent, current_task_id, taskTitle, now) ==
    Append(S, [id |-> Len(S) + 1, agent |-> agent, current_task_id |-> current_task_id,
               task_title |-> taskTitle, created_at |-> now, resumed_at |-> NoTime])

\* getLatestSessionContext lines 563-570: WHERE agent = ? AND resumed_at IS NULL
\* ORDER BY created_at DESC LIMIT 1; rows of the same second come in any order
getLatestSessionContext(S, agent) ==
    LET open == {i \in DOMAIN S : S[i].agent = agent /\ S[i].resumed_at = NoTime}
    IN  {i \in open : \A j \in open : S[j].created_at <= S[i].created_at}

\* markSessionResumed lines 603-605:
\* UPDATE sessions SET resumed_at = datetime('now') WHERE id = ?
markSessionResumed(S, id, now) ==
    IF id \in DOMAIN S THEN [S EXCEPT ![id].resumed_at = now] ELSE S

\* line 607: result.changes > 0
markSessionResumedChanged(S, id) == id \in DOMAIN S

\* ------------------------------------------ shared.ts: bridge_save_context
\* saveSessionContext lines 522-529: the title of the task, if one is named
SaveContext_GetTask(p) ==
    /\ Call(p, "bridge_save_context")
    /\ \E current_task_id \in {None} \cup DOMAIN tasks :
         Goto(p, "save_insert",
              [NoLoc EXCEPT !.op = "save_context", !.tid = current_task_id,
                            !.arg = IF current_task_id # None
                                      THEN tasks[current_task_id].title ELSE Null])
    /\ calls' = calls + 1
    /\ UNCHANGED <<sessions, projectState, store, clock, uuids>>

\* saveSessionContext lines 531-553
SaveContext_Insert(p) ==
    /\ pc[p] = "save_insert"
    /\ \E now \in Now :
         /\ sessions' = saveSessionContext(sessions, getAgentRole(mode[p]), loc[p].tid,
                                           loc[p].arg, now)
         /\ clock' = now
    /\ Goto(p, "save_log", [loc[p] EXCEPT !.id = Len(sessions) + 1])
    /\ UNCHANGED <<projectState, store, uuids, calls>>

\* shared.ts lines 422-434
SaveContext_LogEvent(p) ==
    /\ pc[p] = "save_log"
    /\ events' = logEvent(events, getAgentRole(mode[p]), "session_saved", loc[p].tid, loc[p].id)
    /\ Return(p, Ok("save_context", loc[p].tid, loc[p].id))
    /\ UNCHANGED <<sessions, projectState, tasks, seqCounter, clars, clock, uuids, calls>>

\* ------------------------------------------ shared.ts: bridge_load_context
\* lines 449-468: by id, or the latest open session of the calling role
LoadContext_GetSession(p) ==
    /\ Call(p, "bridge_load_context")
    /\ \E session_id \in {None} \cup 1..(Len(sessions) + 1) :
         IF session_id # None
           THEN IF session_id \in DOMAIN sessions
                  THEN Goto(p, "load_mark",
                            [NoLoc EXCEPT !.op = "load_context", !.id = session_id,
                                          !.arg = session_id,
                                          !.tid = sessions[session_id].current_task_id])
                  ELSE Return(p, Err("load_context", None, "NotFound", Null))
           ELSE IF getLatestSessionContext(sessions, getAgentRole(mode[p])) = {}
                  THEN Return(p, Ok("load_context", None, None))
                  ELSE \E latest \in getLatestSessionContext(sessions, getAgentRole(mode[p])) :
                         Goto(p, "load_mark",
                              [NoLoc EXCEPT !.op = "load_context", !.id = latest,
                                            !.arg = None,
                                            !.tid = sessions[latest].current_task_id])
    /\ calls' = calls + 1
    /\ UNCHANGED <<sessions, projectState, store, clock, uuids>>

\* line 471
LoadContext_MarkResumed(p) ==
    /\ pc[p] = "load_mark"
    /\ \E now \in Now :
         /\ sessions' = markSessionResumed(sessions, loc[p].id, now)
         /\ clock' = now
    /\ Goto(p, "load_log", loc[p])
    /\ UNCHANGED <<projectState, store, uuids, calls>>

\* lines 473-497
LoadContext_LogEvent(p) ==
    /\ pc[p] = "load_log"
    /\ events' = logEvent(events, getAgentRole(mode[p]), "session_resumed", loc[p].tid, loc[p].id)
    /\ Return(p, Ok("load_context", loc[p].tid, loc[p].id))
    /\ UNCHANGED <<sessions, projectState, tasks, seqCounter, clars, clock, uuids, calls>>

NextSessions ==
    \E p \in Procs :
        \/ SaveContext_GetTask(p)
        \/ SaveContext_Insert(p)
        \/ SaveContext_LogEvent(p)
        \/ LoadContext_GetSession(p)
        \/ LoadContext_MarkResumed(p)
        \/ LoadContext_LogEvent(p)

SpecSessions == Init /\ [][NextSessions]_vars

\* ------------------------------------------------ batches and their order
\* a batch is pushed by the architect side and worked off by the executor
\* side: bridge_push_tasks, bridge_claim_task and bridge_complete_task, whose
\* answer carries the next task pullNextTask finds
NextBatch ==
    \E p \in Procs :
        \/ PushTasks_Parse(p)
        \/ PushTasks_NextSequence(p)
        \/ PushTasks_Insert(p)
        \/ PushTasks_LogEvent(p)
        \/ PullTask_DepCheck(p)
        \/ ClaimTask_GetTask(p)
        \/ ClaimTask_GetDep(p)
        \/ ClaimTask_Update(p)
        \/ ClaimTask_LogEvent(p)
        \/ CompleteTask_GetTask(p)
        \/ CompleteTask_Update(p)
        \/ CompleteTask_LogEvent(p)
        \/ CompleteTask_PullNext(p)

SpecBatch == Init /\ [][NextBatch]_vars

\* ------------------------------------------------ the handlers' status checks
\* database.ts initialize: an existing store keeps its rows.  The store after
\* two bridge_push_task calls, the second task depending on the first.
QueuedTasks ==
    LET params(depends_on) ==
          [priority |-> "absent", category |-> "absent", title |-> "t0",
           depends_on |-> depends_on, created_by |-> "architect", assigned_to |-> "absent"]
    IN  (1 :> NewTaskRow(1, 1, params(<< >>))) @@ (2 :> NewTaskRow(2, 2, params(<<1>>)))

InitGuards ==
    /\ tasks = QueuedTasks
    /\ seqCounter = 2
    /\ clars = << >>
    /\ events = logEvent(logEvent(<< >>, "architect", "task_created", 1, None),
                         "architect", "task_created", 2, None)
    /\ clock = 0
    /\ uuids = 2
    /\ calls = 0
    /\ pc = [p \in Procs |-> "idle"]
    /\ loc = [p \in Procs |-> NoLoc]
    /\ ret = NoRet
    /\ mode \in Deployments
    /\ sessions = << >>
    /\ projectState = NoProjectState
    /\ pullFilter = << >>

NextGuards ==
    \E p \in Procs :
        \/ ClaimTask_GetTask(p)
        \/ ClaimTask_GetDep(p)
        \/ ClaimTask_Update(p)
        \/ ClaimTask_LogEvent(p)
        \/ ReportProgress_GetTask(p)
        \/ ReportProgress_Update(p)
        \/ ReportProgress_LogEvent(p)
        \/ CompleteTask_GetTask(p)
        \/ CompleteTask_Update(p)
        \/ CompleteTask_LogEvent(p)
        \/ CompleteTask_PullNext(p)
        \/ PullTask_DepCheck(p)
        \/ FailTask_GetTask(p)
        \/ FailTask_Update(p)
        \/ FailTask_LogEvent(p)
        \/ RequestClarification_GetTask(p)
        \/ RequestClarification_Create(p)
        \/ RequestClarification_Update(p)
        \/ RequestClarification_LogEvent(p)
        \/ CancelTask_GetTask(p)
        \/ CancelTask_Update(p)
        \/ CancelTask_LogEvent(p)

SpecGuards == InitGuards /\ [][NextGuards]_vars

\* the assignee of a task in the executor's hands: tasks are claimed, worked
\* on, and updated by the architect
NextAssign ==
    \E p \in Procs :
        \/ ClaimTask_GetTask(p)
        \/ ClaimTask_GetDep(p)
        \/ ClaimTask_Update(p)
        \/ ClaimTask_LogEvent(p)
        \/ ReportProgress_GetTask(p)
        \/ ReportProgress_Update(p)
        \/ ReportProgress_LogEvent(p)
        \/ UpdateTask_GetTask(p)
        \/ UnassignTask_GetTask(p)
        \/ UpdateTask_Update(p)
        \/ UpdateTask_LogEvent(p)

SpecAssign == InitGuards /\ [][NextAssign]_vars

\* ------------------------------------------- shared.ts: bridge_list_tasks
\* the status, assigned_to and limit a caller may pass
ListStatusInputs ==
    {[given |-> FALSE, of |-> {}], [given |-> TRUE, of |-> {"queued"}],
     [given |-> TRUE, of |-> {"queued", "claimed"}]}
ListAssigneeInputs == {Null, "executor"}
ListLimitInputs == {None, 1}

\* the default of the handler, line 89: validated.limit || 50
ListLimitDefault == 50

\* shared.ts lines 84-91
ListTasks_List(p) ==
    /\ Call(p, "bridge_list_tasks")
    /\ \E status \in ListStatusInputs, assigned_to \in ListAssigneeInputs,
          limit \in ListLimitInputs :
         Goto(p, "list_counts",
              [NoLoc EXCEPT !.op = "list_tasks",
                            !.filter = [status |-> status, assigned_to |-> assigned_to,
                                        limit |-> limit],
                            !.scan = listTasks(tasks, status, assigned_to,
                                               IF limit = None THEN ListLimitDefault
                                                               ELSE limit)])
    /\ calls' = calls + 1
    /\ UNCHANGED <<sessions, projectState, store, clock, uuids>>

\* shared.ts lines 93-109
ListTasks_Counts(p) ==
    /\ pc[p] = "list_counts"
    /\ Return(p, Ok("list_tasks", None,
                    [tasks |-> loc[p].scan, total |-> Len(loc[p].scan),
                     counts_by_status |-> getTaskCountsByStatus(tasks)]))
    /\ UNCHANGED <<sessions, projectState, store, clock, uuids, calls>>

\* the queue as its users see it: tasks are pushed, listed, pulled, claimed
\* and completed
NextQueue ==
    \E p \in Procs :
        \/ PushTask_Validate(p)
        \/ PushTask_NextSequence(p)
        \/ PushTask_Insert(p)
        \/ PushTask_LogEvent(p)
        \/ ListTasks_List(p)
        \/ ListTasks_Counts(p)
        \/ PullTask_Select(p)
        \/ PullTask_DepCheck(p)
        \/ ClaimTask_GetTask(p)
        \/ ClaimTask_GetDep(p)
        \/ ClaimTask_Update(p)
        \/ ClaimTask_LogEvent(p)
        \/ CompleteTask_GetTask(p)
        \/ CompleteTask_Update(p)
        \/ CompleteTask_LogEvent(p)
        \/ CompleteTask_PullNext(p)

SpecQueue == Init /\ [][NextQueue]_vars

\* ---------------------------------------------------- the executor's work loop
\* The executor works the queue off alone: it calls bridge_pull_task, then
\* bridge_claim_task on the task it got, then bridge_complete_task on the
\* task it claimed, and starts again; each call is made once the one before
\* has returned.  The store it starts on holds tasks that were pushed before
\* (an existing store keeps its rows): every dependency is an older task.
DrainStores ==
    UNION {{[i \in 1..n |->
               NewTaskRow(i, i, [priority |-> v[i].priority, category |-> v[i].category,
                                 title |-> "t0", depends_on |-> d[i],
                                 created_by |-> "architect", assigned_to |-> v[i].assign_to])] :
              v \in [1..n -> PushInputs],
              d \in {e \in [1..n -> DependsOnInputs] : \A i \in 1..n : Range(e[i]) \subseteq 1..(i - 1)}} :
           n \in 1..MaxTasks}

InitDrain ==
    /\ tasks \in DrainStores
    /\ seqCounter = Len(tasks)
    /\ clars = << >>
    /\ events = [i \in 1..Len(tasks) |-> [id |-> i, agent |-> "architect",
                                           event_type |-> "task_created",
                                           task_id |-> i, payload |-> None]]
    /\ clock = 0
    /\ uuids = Len(tasks)
    /\ calls = 0
    /\ pc = [p \in Procs |-> "idle"]
    /\ loc = [p \in Procs |-> NoLoc]
    /\ ret = NoRet
    /\ mode \in Deployments
    /\ sessions = << >>
    /\ projectState = NoProjectState
    /\ pullFilter \in CategoryFilters

\* the call the loop makes next, from what the last call returned
DrainTurn ==
    IF ret.op = "pull_task" /\ ret.val # None THEN "claim"
    ELSE IF ret.op = "claim_task" /\ ret.ok THEN "complete"
    ELSE "pull"

\* the executor is idle between two calls and is served by a server that has
\* its tools; the loop ends with the queue, so its calls are not counted
DrainCall(p, tool) ==
    /\ \A q \in Procs : pc[q] = "idle"
    /\ tool \in buildTools(mode[p])

Drain_Pull(p) ==
    /\ DrainCall(p, "bridge_pull_task")
    /\ DrainTurn = "pull"
    /\ PullTask_Query(p, pullFilter)
    /\ UNCHANGED <<sessions, projectState, store, clock, uuids, calls>>

Drain_Claim(p) ==
    /\ DrainCall(p, "bridge_claim_task")
    /\ DrainTurn = "claim"
    /\ ClaimTask_Check(p, ret.val)
    /\ UNCHANGED <<sessions, projectState, store, clock, uuids, calls>>

Drain_Complete(p) ==
    /\ DrainCall(p, "bridge_complete_task")
    /\ DrainTurn = "complete"
    /\ \E result \in ResultInputs : CompleteTask_Check(p, ret.task, result)
    /\ UNCHANGED <<sessions, projectState, store, clock, uuids, calls>>

NextDrain ==
    \E p \in Procs :
        \/ Drain_Pull(p)
        \/ PullTask_DepCheck(p)
        \/ Drain_Claim(p)
        \/ ClaimTask_GetDep(p)
        \/ ClaimTask_Update(p)
        \/ ClaimTask_LogEvent(p)
        \/ Drain_Complete(p)
        \/ CompleteTask_Update(p)
        \/ CompleteTask_LogEvent(p)
        \/ CompleteTask_PullNext(p)

\* the executor goes on calling and a handler, once called, runs to its end
\* (better-sqlite3 is synchronous)
SpecDrain == InitDrain /\ [][NextDrain]_vars /\ WF_vars(NextDrain)

\* ====================================================================
\* Properties
\* ====================================================================
Active == {"claimed", "in_progress"}

\* process p takes the step that leaves label from
Leaves(p, from) == pc[p] = from /\ pc'[p] # from

\* process p takes the step that enters label to
Enters(p, to) == pc[p] # to /\ pc'[p] = to

EventsOf(E, event_type, task_id) ==
    {i \in DOMAIN E : E[i].event_type = event_type /\ E[i].task_id = task_id}

\* C1: exactly-once claiming. A bridge_claim_task call that returns success
\* is the only call that ever claimed that task: the log holds exactly one
\* task_claimed entry for it.
C1_ExactlyOnceClaim ==
    [][(Returned /\ ret'.op = "claim_task" /\ ret'.ok)
         => Cardinality(EventsOf(events', "task_claimed", ret'.task)) = 1]_vars

\* C2: whenever a pull returns a task (bridge_pull_task, or the next_task of
\* bridge_complete_task), every identifier in the task's depends_on is a task
\* whose status is completed.
PulledTask(r) ==
    IF r.op \in {"pull_task", "complete_task"} THEN r.val ELSE None

C2_PullRespectsDependencies ==
    [][(Returned /\ PulledTask(ret') # None)
         => \A i \in DOMAIN tasks'[PulledTask(ret')].depends_on :
              LET d == tasks'[PulledTask(ret')].depends_on[i]
              IN  d \in DOMAIN tasks' /\ tasks'[d].status = "completed"]_vars

C2_Witness ==
    /\ PulledTask(ret) # None
    /\ Len(tasks[PulledTask(ret)].depends_on) > 0
    /\ \A i \in DOMAIN tasks[PulledTask(ret)].depends_on :
         tasks[tasks[PulledTask(ret)].depends_on[i]].status = "completed"

\* C3: on every store state and for every filter, pullNextTask returns the
\* minimum, by priority rank (critical < high < normal < low) and then by
\* ascending sequence, of the queued tasks that match the filter and whose
\* dependencies are all completed, and none exactly when there is no such task.
RankOf(priority) ==
    IF priority = "critical" THEN 1
    ELSE IF priority = "high" THEN 2
    ELSE IF priority = "normal" THEN 3
    ELSE 4

ComesFirst(a, b) ==
    \/ RankOf(a.priority) < RankOf(b.priority)
    \/ (RankOf(a.priority) = RankOf(b.priority) /\ a.sequence < b.sequence)

DependenciesCompleted(T, id) ==
    \A i \in DOMAIN T[id].depends_on :
        /\ T[id].depends_on[i] \in DOMAIN T
        /\ T[T[id].depends_on[i]].status = "completed"

MatchesFilter(row, categories, assigned_to) ==
    /\ (categories # << >> => row.category \in Range(categories))
    /\ (assigned_to # Null => row.assigned_to \in {assigned_to, Null})

EligibleSet(T, categories, assigned_to) ==
    {id \in DOMAIN T :
        /\ T[id].status = "queued"
        /\ MatchesFilter(T[id], categories, assigned_to)
        /\ DependenciesCompleted(T, id)}

AssigneeFilters == {Null, "executor", "architect"}

C3_PullReturnsMinimum ==
    \A categories \in CategoryFilters, assigned_to \in AssigneeFilters :
        LET E == EligibleSet(tasks, categories, assigned_to)
            r == pullNextTask(tasks, categories, assigned_to)
        IN  /\ (E = {}) <=> (r = None)
            /\ r # None =>
                 /\ r \in E
                 /\ \A u \in E \ {r} : ComesFirst(tasks[r], tasks[u])

\* a queued critical task created later is returned before an eligible high
\* task created earlier
C3_Witness ==
    \E t \in DOMAIN tasks, u \in DOMAIN tasks :
        /\ tasks[t].status = "queued" /\ tasks[u].status = "queued"
        /\ tasks[t].priority = "critical" /\ tasks[u].priority = "high"
        /\ tasks[t].sequence > tasks[u].sequence
        /\ DependenciesCompleted(tasks, u)
        /\ pullNextTask(tasks, << >>, Null) = t

\* C4: with A (no dependencies) and B (depends_on = [A]) and no other queued
\* task, pullNextTask never returns B while A is not completed, returns A
\* while A is queued, and returns B once A is completed (for every filter
\* that both tasks match).
C4_DependencyOrdering ==
    \A a \in DOMAIN tasks, b \in DOMAIN tasks :
      \A categories \in CategoryFilters, assigned_to \in AssigneeFilters :
        ( /\ tasks[a].depends_on = << >>
          /\ tasks[b].depends_on = <<a>>
          /\ tasks[b].status = "queued"
          /\ MatchesFilter(tasks[a], categories, assigned_to)
          /\ MatchesFilter(tasks[b], categories, assigned_to)
          /\ \A c \in DOMAIN tasks \ {a, b} : tasks[c].status # "queued" )
        => LET r == pullNextTask(tasks, categories, assigned_to)
           IN  /\ tasks[a].status # "completed" => r # b
               /\ tasks[a].status = "queued" => r = a
               /\ tasks[a].status \notin {"queued", "completed"} => r = None
               /\ tasks[a].status = "completed" => r = b

C4_Witness ==
    \E a \in DOMAIN tasks, b \in DOMAIN tasks :
        /\ tasks[a].depends_on = << >>
        /\ tasks[b].depends_on = <<a>>
        /\ tasks[a].status = "completed"
        /\ tasks[b].status = "queued"
        /\ pullNextTask(tasks, << >>, "executor") = b
        /\ ret.op = "complete_task" /\ ret.task = a /\ ret.val = b

\* C5: a bridge_update_task call never changes a task whose status is
\* completed, failed or cancelled at the moment its UPDATE is applied.
C5_NoUpdateOfTerminal ==
    [][\A p \in Procs :
         (Leaves(p, "update_update") /\ tasks[loc[p].tid].status \in Terminal)
           => /\ tasks'[loc[p].tid] = tasks[loc[p].tid]
              /\ Returned /\ ~ret'.ok]_vars

\* C6: once a task's status is completed, failed or cancelled, its status,
\* result and completed_at never change again.
C6_TerminalAbsorbing ==
    [][\A t \in DOMAIN tasks :
         tasks[t].status \in Terminal
           => /\ tasks'[t].status = tasks[t].status
              /\ tasks'[t].result = tasks[t].result
              /\ tasks'[t].completed_at = tasks[t].completed_at]_vars

\* C7: a task starts in queued and every change of a task's status is an
\* edge of the state machine.
Edges ==
    {<<"queued", "claimed">>,
     <<"claimed", "in_progress">>, <<"in_progress", "in_progress">>,
     <<"claimed", "blocked">>, <<"in_progress", "blocked">>,
     <<"blocked", "in_progress">>,
     <<"claimed", "completed">>, <<"in_progress", "completed">>,
     <<"claimed", "failed">>, <<"in_progress", "failed">>, <<"blocked", "failed">>,
     <<"queued", "cancelled">>, <<"blocked", "cancelled">>}

C7_OnlyStateMachineEdges ==
    [][/\ \A t \in DOMAIN tasks' \ DOMAIN tasks : tasks'[t].status = "queued"
       /\ \A t \in DOMAIN tasks :
            tasks'[t].status # tasks[t].status
              => <<tasks[t].status, tasks'[t].status>> \in Edges]_vars

\* C8: bridge_cancel_task is applied only to a task that is queued or blocked
\* at that moment (it then becomes cancelled with completed_at set); a call
\* on a task in any other status returns InvalidStateTransition and changes
\* nothing.
C8_CancelOnlyQueuedOrBlocked ==
    [][\A p \in Procs :
         /\ Leaves(p, "cancel_update")
              => /\ tasks[loc[p].tid].status \in {"queued", "blocked"}
                 /\ tasks'[loc[p].tid].status = "cancelled"
                 /\ tasks'[loc[p].tid].completed_at # NoTime
         /\ (Returned /\ ret'.op = "cancel_task" /\ ~ret'.ok /\ ret'.task \in DOMAIN tasks)
              => /\ ret'.err = "InvalidStateTransition"
                 /\ tasks[ret'.task].status \notin {"queued", "blocked"}
                 /\ tasks' = tasks]_vars

\* C9: bridge_request_clarification is accepted only for a task that is
\* claimed or in_progress; an accepted call creates exactly one clarification
\* for that task, with null response, and sets the task to blocked; a
\* rejected call creates no clarification and changes no task.
ClarificationsOf(C, task_id) == {i \in DOMAIN C : C[i].task_id = task_id}

C9_RequestClarification ==
    [][/\ \A p \in Procs :
            /\ Enters(p, "clarify_insert") => tasks[loc'[p].tid].status \in Active
            /\ Leaves(p, "clarify_insert")
                 => /\ Len(clars') = Len(clars) + 1
                    /\ SubSeq(clars', 1, Len(clars)) = clars
                    /\ clars'[Len(clars')].task_id = loc[p].tid
                    /\ clars'[Len(clars')].response = Null
                    /\ clars'[Len(clars')].responded_at = NoTime
            /\ Leaves(p, "clarify_update") => tasks'[loc[p].tid].status = "blocked"
       /\ (Returned /\ ret'.op = "request_clarification" /\ ~ret'.ok)
            => /\ clars' = clars /\ tasks' = tasks
               /\ ret'.task \in DOMAIN tasks => tasks[ret'.task].status \notin Active
       /\ (Returned /\ ret'.op = "request_clarification" /\ ret'.ok)
            => /\ clars'[ret'.val].task_id = ret'.task
               /\ Cardinality(EventsOf(events', "clarification_requested", ret'.task))
                    = Cardinality(EventsOf(events, "clarification_requested", ret'.task)) + 1
       /\ Len(clars') # Len(clars) => \E p \in Procs : Leaves(p, "clarify_insert")
       /\ \A t \in DOMAIN tasks' :
            Cardinality(ClarificationsOf(clars', t))
              = Cardinality(EventsOf(events', "clarification_requested", t))
                  + Cardinality({p \in Procs : pc'[p] \in {"clarify_update", "clarify_log"}
                                               /\ loc'[p].tid = t})]_vars

C9_Witness ==
    /\ ret.op = "request_clarification" /\ ret.ok
    /\ tasks[ret.task].status = "blocked"
    /\ ClarificationsOf(clars, ret.task) = {ret.val}
    /\ clars[ret.val].response = Null

C11_RespondUnblocksTask ==
    [][(Returned /\ ret'.op = "respond_clarification" /\ ret'.ok)
         => tasks'[clars'[ret'.val].task_id].status \in Active]_vars

\* C12: a clarification is resolved exactly once. A response is accepted only
\* for a clarification whose response is null, and once a clarification has a
\* response, its response and responded_at never change.
C12_ResolvedExactlyOnce ==
    [][/\ \A p \in Procs :
            Enters(p, "respond_log") => clars[loc'[p].id].response = Null
       /\ \A c \in DOMAIN clars :
            clars[c].response # Null
              => /\ clars'[c].response = clars[c].response
                 /\ clars'[c].responded_at = clars[c].responded_at]_vars

\* C14: the sequence numbers of the tasks are pairwise distinct and strictly
\* increasing in creation order: a task that enters the store carries a larger
\* sequence than every task already stored, also when the two servers create
\* tasks concurrently.
C14_SequenceIncreasing ==
    [][\A t \in DOMAIN tasks' \ DOMAIN tasks :
         \A u \in DOMAIN tasks : tasks[u].sequence < tasks'[t].sequence]_vars

\* C15: in every reachable state a task carries a result if and only if its
\* status is completed or failed.
C15_ResultIffCompletedOrFailed ==
    \A t \in DOMAIN tasks :
        (~tasks[t].result.isNull) <=> (tasks[t].status \in {"completed", "failed"})

\* C16: a single push whose dependency list names a task that does not exist
\* fails with DependencyNotFound, creates no task, consumes no sequence number
\* and logs no event; a push that is accepted names existing tasks only; and
\* in every reachable state every identifier in every stored task's depends_on
\* is a stored task (single push and batch push alike).
C16_DependenciesExist ==
    [][/\ (Returned /\ ret'.op = "push_task" /\ ~ret'.ok)
            => /\ ret'.err = "DependencyNotFound"
               /\ store' = store /\ uuids' = uuids
       /\ \A p \in Procs :
            Enters(p, "push_seq")
              => \A i \in DOMAIN loc'[p].arg.depends_on :
                   loc'[p].arg.depends_on[i] \in DOMAIN tasks
       /\ \A t \in DOMAIN tasks' :
            \A i \in DOMAIN tasks'[t].depends_on :
                tasks'[t].depends_on[i] \in DOMAIN tasks']_vars

\* a push naming a missing task was rejected and left the one stored task, the
\* counter and the log as they were, and a task with a dependency is stored
C16_Witness ==
    /\ ret.op = "push_task" /\ ret.err = "DependencyNotFound"
    /\ DOMAIN tasks = {1} /\ seqCounter = 1 /\ Len(events) = 1
    /\ pc = [p \in Procs |-> "idle"]

\* C17: a claim is applied only to a task that is queued and whose
\* dependencies are all completed at the moment it is applied, and it then sets
\* status claimed, claimed_at and assigned_to; a claim that fails changes
\* nothing; and no task is claimed, in_progress, blocked or completed while one
\* of its dependencies is not completed.
C17_ClaimGuards ==
    [][/\ \A p \in Procs :
            Leaves(p, "claim_update")
              => /\ tasks[loc[p].tid].status = "queued"
                 /\ DependenciesCompleted(tasks, loc[p].tid)
                 /\ tasks'[loc[p].tid].status = "claimed"
                 /\ tasks'[loc[p].tid].claimed_at # NoTime
                 /\ tasks'[loc[p].tid].assigned_to = "executor"
       /\ (Returned /\ ret'.op = "claim_task" /\ ~ret'.ok)
            => /\ tasks' = tasks
               /\ ret'.err \in {"NotFound", "InvalidStateTransition", "DependencyUnmet"}
       /\ \A t \in DOMAIN tasks' :
            tasks'[t].status \in {"claimed", "in_progress", "blocked", "completed"}
              => DependenciesCompleted(tasks', t)]_vars

\* C18: every state-changing operation is all-or-nothing. A call that fails
\* (also with transient storage contention at one of its write statements) has
\* written nothing: a failed bridge_request_clarification leaves no
\* clarification row behind, a failed bridge_push_tasks leaves no task of the
\* batch and no consumed sequence number behind.
HasWritten(p) ==
    \/ pc[p] \in WriteLabels \ {"push_seq", "batch_seq", "claim_update", "progress_update",
                                "complete_update", "fail_update", "clarify_insert",
                                "update_update", "cancel_update"}
    \/ pc[p] = "batch_seq" /\ loc[p].taskIds # << >>

Fails(p) == pc[p] # "idle" /\ pc'[p] = "idle" /\ ret'.err # "none"

C18_AllOrNothing ==
    [][\A p \in Procs :
         Fails(p)
           => /\ ~HasWritten(p)
              /\ loc[p].op = "request_clarification" => loc[p].id \notin DOMAIN clars'
              /\ loc[p].op = "push_tasks"
                   => /\ loc[p].taskIds = << >>
                      /\ loc[p].id \notin DOMAIN tasks'
                      /\ loc[p].sequence = 0]_vars

\* C19: every status write of a transition has its Event Log entry, carrying
\* the event type, the acting role and the task: a task that was claimed has a
\* task_claimed entry, a task that was started a progress_reported entry, a
\* completed, failed or cancelled task its task_completed, task_failed or
\* task_cancelled entry, a blocked task a clarification_requested or
\* progress_reported entry (the entry of a handler that is between its status
\* write and its logEvent counts as appended).
Logged(t, agent, event_type, label) ==
    \/ \E i \in EventsOf(events, event_type, t) : events[i].agent = agent
    \/ \E p \in Procs : pc[p] = label /\ loc[p].tid = t

C19_TransitionsLogged ==
    \A t \in DOMAIN tasks :
        /\ tasks[t].claimed_at # NoTime => Logged(t, "executor", "task_claimed", "claim_log")
        /\ tasks[t].started_at # NoTime
             => Logged(t, "executor", "progress_reported", "progress_log")
        /\ tasks[t].status = "completed"
             => Logged(t, "executor", "task_completed", "complete_log")
        /\ tasks[t].status = "failed" => Logged(t, "executor", "task_failed", "fail_log")
        /\ tasks[t].status = "cancelled"
             => Logged(t, "architect", "task_cancelled", "cancel_log")
        /\ tasks[t].status = "blocked"
             => \/ Logged(t, "executor", "clarification_requested", "clarify_log")
                \/ Logged(t, "executor", "progress_reported", "progress_log")

\* C13: recent_decisions never holds more than 50 entries, and a decision
\* added to the list as it stands gives the last min(n, 50) decisions in the
\* order they were added: the new decision is last, the entries before it are
\* the most recent earlier ones in their order, and the 51st drops the oldest.
C13_LastFiftyDecisions ==
    [][/\ Len(projectState'.recent_decisions) <= 50
       /\ \A p \in Procs :
            (Leaves(p, "decision_update") /\ loc[p].arg = projectState.recent_decisions)
              => LET old == projectState.recent_decisions
                     new == projectState'.recent_decisions
                     kept == IF Len(old) + 1 <= 50 THEN Len(old) + 1 ELSE 50
                 IN  /\ Len(new) = kept
                     /\ new[kept] = loc[p].id
                     /\ \A i \in 1..(kept - 1) : new[i] = old[Len(old) - (kept - 1) + i]]_vars

\* the 51st decision is in, the first is gone, the 2nd to 51st are in order
C13_Witness ==
    /\ ret.op = "log_decision" /\ ret.val = 51
    /\ projectState.recent_decisions = [i \in 1..50 |-> i + 1]

\* C20: a session is marked resumed exactly once. Once resumed_at is set it
\* keeps its value, and markSessionResumed reports a change exactly when the
\* session's resumed_at was null, also when bridge_load_context loads the
\* session by id a second time.
C20_ResumedExactlyOnce ==
    [][/\ \A i \in DOMAIN sessions :
            sessions[i].resumed_at # NoTime
              => sessions'[i].resumed_at = sessions[i].resumed_at
       /\ \A p \in Procs :
            Leaves(p, "load_mark")
              => (markSessionResumedChanged(sessions, loc[p].id)
                    <=> sessions[loc[p].id].resumed_at = NoTime)]_vars

\* the statuses from which an operation is permitted (the handlers' checks)
AllowedFrom(op) ==
    CASE op = "claim_task" -> {"queued"}
      [] op \in {"report_progress", "complete_task", "request_clarification"} -> Active
      [] op = "fail_task" -> Active \cup {"blocked"}
      [] op = "cancel_task" -> {"queued", "blocked"}
      [] op = "update_task" -> Statuses \ Terminal
      [] OTHER -> {}

\* the labels at which a handler applies its UPDATE of the task
StatusWrites ==
    {"claim_update", "progress_update", "complete_update", "fail_update",
     "cancel_update", "clarify_update", "update_update"}

\* C21: a state-changing operation reads the status and writes the new one
\* as one atomic step: whenever a handler applies its UPDATE, the task still
\* has a status from which the operation is permitted (the write observes
\* every earlier write, as in a run of the calls one after the other).
C21_ReadCheckWriteAtomic ==
    [][\A p \in Procs :
         (pc[p] \in StatusWrites /\ pc'[p] # pc[p] /\ tasks' # tasks)
           => tasks[loc[p].tid].status \in AllowedFrom(loc[p].op)]_vars

\* C22: a task inserted by bridge_push_tasks depends on the task inserted
\* just before it in the same batch when execution_order is sequential, and
\* on nothing when it is parallel or absent, whatever the priorities; a task
\* with a dependency is returned by a pull, and becomes claimed, only after
\* the task it depends on was completed.
WasCompleted(d) == Logged(d, "executor", "task_completed", "complete_log")

C23_NoPathBackFromBlocked ==
    [][\A t \in DOMAIN tasks :
         tasks[t].status = "blocked"
           => tasks'[t].status \in {"blocked", "failed", "cancelled"}]_vars

\* C24: a claim, progress report, completion, failure, cancellation or
\* clarification request called on an existing task whose status does not
\* permit it returns at once with InvalidStateTransition naming the task's
\* current status and leaves tasks, clarifications and the event log as they
\* were; a call that goes on found a status that permits it.
GuardedOps ==
    {"claim_task", "report_progress", "complete_task", "fail_task", "cancel_task",
     "request_clarification"}

C24_DisallowedOperationFails ==
    [][/\ (Returned /\ ret'.err = "InvalidStateTransition" /\ ret'.op \in GuardedOps)
            => /\ ret'.status = tasks[ret'.task].status
               /\ ret'.status \notin AllowedFrom(ret'.op)
               /\ ~ret'.ok
               /\ store' = store
       /\ \A p \in Procs :
            (pc[p] = "idle" /\ pc'[p] # "idle" /\ loc'[p].op \in GuardedOps)
              => tasks[loc'[p].tid].status \in AllowedFrom(loc'[p].op)
       /\ (calls' = calls + 1 /\ Returned /\ ret'.op \in GuardedOps
             /\ ret'.task \in DOMAIN tasks)
            => ret'.err = "InvalidStateTransition"]_vars

C24_Witness ==
    /\ ret.op = "cancel_task"
    /\ ret.err = "InvalidStateTransition"
    /\ ret.status = "in_progress"
    /\ tasks[ret.task].status = "in_progress"
    /\ \A p \in Procs : pc[p] = "idle"
    /\ EventsOf(events, "task_cancelled", ret.task) = {}

\* C25: a progress report is applied only to a claimed or in_progress task;
\* the step that takes a task from claimed to in_progress or blocked sets
\* started_at, a started_at once set never changes, and every in_progress
\* task has a started_at.
C25_StartedAtSetOnce ==
    [][\A t \in DOMAIN tasks :
         /\ \A p \in Procs :
              (Leaves(p, "progress_update") /\ loc[p].tid = t) => tasks[t].status \in Active
         /\ (tasks[t].status = "claimed" /\ tasks'[t].status \in {"in_progress", "blocked"})
              => tasks'[t].started_at # NoTime
         /\ tasks[t].started_at # NoTime => tasks'[t].started_at = tasks[t].started_at
         /\ tasks'[t].status = "in_progress" => tasks'[t].started_at # NoTime]_vars

\* C26: no sequence number is skipped: when no createTask is under way, the
\* n stored tasks carry exactly the sequences 1..n and the counter equals n.
C26_NoSkippedSequence ==
    (\A p \in Procs : pc[p] = "idle")
      => /\ {tasks[t].sequence : t \in DOMAIN tasks} = 1..Cardinality(DOMAIN tasks)
         /\ seqCounter = Cardinality(DOMAIN tasks)

\* C27: listTasks(status = queued) gives the queued tasks in the order in
\* which pullNextTask scans them, on every store state (the empty store and
\* the store after every step that changes it) and in every answer of
\* bridge_list_tasks, and pullNextTask without filters returns the first
\* task of that list whose dependencies are all completed (none if there is
\* no such task).
RECURSIVE FirstReady(_, _)
FirstReady(T, rows) ==
    IF rows = << >> THEN None
    ELSE IF DependenciesCompleted(T, Head(rows)) THEN Head(rows)
    ELSE FirstReady(T, Tail(rows))

QueuedOnly == [status |-> [given |-> TRUE, of |-> {"queued"}], assigned_to |-> Null,
               limit |-> None]

C27_ListingMatchesScheduling ==
    [][/\ tasks' # tasks
            => LET rows == listTasks(tasks', QueuedOnly.status, Null, None)
               IN  /\ rows = QueuedRows(tasks', << >>, Null)
                   /\ pullNextTask(tasks', << >>, Null) = FirstReady(tasks', rows)
       /\ \A p \in Procs :
            (Enters(p, "list_counts") /\ loc'[p].filter = QueuedOnly)
              => /\ loc'[p].scan = QueuedRows(tasks, << >>, Null)
                 /\ pullNextTask(tasks, << >>, Null) = FirstReady(tasks, loc'[p].scan)]_vars

C27_Witness ==
    \E p \in Procs :
        /\ pc[p] = "list_counts"
        /\ loc[p].filter = QueuedOnly
        /\ Len(loc[p].scan) = 2
        /\ tasks[loc[p].scan[1]].sequence > tasks[loc[p].scan[2]].sequence
        /\ tasks[loc[p].scan[1]].depends_on # << >>
        /\ pullNextTask(tasks, << >>, Null) = loc[p].scan[2]

\* C28: on every store state (the empty store and the store after every step
\* that changes it) getQueuePosition(t) of a queued task t is 1 plus the
\* number of queued tasks that come before t by priority rank and then
\* sequence, which is t's 1-based index in listTasks(status = queued), so the
\* positions of the n queued tasks are exactly 1..n; for a task that is
\* missing or not queued it is -1; and the queue_position in the answer of
\* bridge_push_task is that number for the task just created.
IndexOf(rows, id) == CHOOSE i \in DOMAIN rows : rows[i] = id

ExpectedPosition(rows, id) == IF id \in Range(rows) THEN IndexOf(rows, id) ELSE -1

PositionsAgree(T) ==
    LET rows == listTasks(T, QueuedOnly.status, Null, None)
        queued == {id \in DOMAIN T : T[id].status = "queued"}
    IN  /\ \A id \in TaskIds :
             /\ getQueuePosition(T, id) = ExpectedPosition(rows, id)
             /\ id \in queued
                  => getQueuePosition(T, id)
                       = 1 + Cardinality({u \in queued : ComesFirst(T[u], T[id])})
             /\ id \notin queued => getQueuePosition(T, id) = -1
        /\ {getQueuePosition(T, id) : id \in queued} = 1..Cardinality(queued)

OpenSessions(S, agent) ==
    {i \in DOMAIN S : S[i].agent = agent /\ S[i].resumed_at = NoTime}

C29_LoadLatest ==
    [][/\ \A p \in Procs :
            (Enters(p, "load_mark") /\ loc'[p].arg = None)
              => /\ loc'[p].id \in OpenSessions(sessions, getAgentRole(mode[p]))
                 /\ \A j \in OpenSessions(sessions, getAgentRole(mode[p])) : j <= loc'[p].id
       /\ \A p \in Procs :
            (Leaves(p, "load_mark") /\ loc[p].arg = None)
              => /\ sessions'[loc[p].id].resumed_at # NoTime
                 /\ loc[p].id \notin getLatestSessionContext(sessions', getAgentRole(mode[p]))
       /\ (calls' = calls + 1 /\ Returned /\ ret'.op = "load_context" /\ ret'.ok)
            => \E p \in Procs : OpenSessions(sessions, getAgentRole(mode[p])) = {}]_vars

\* C30: a step of a server never changes a session whose agent is the other
\* role: every field of such a session, resumed_at included, stays as it was.
C30_NoCrossAgentSessionWrite ==
    [][\A p \in Procs :
         pc'[p] # pc[p]
           => \A i \in DOMAIN sessions :
                sessions[i].agent # getAgentRole(mode[p]) => sessions'[i] = sessions[i]]_vars

\* C31: no decision is lost to a concurrent writer: while at most 50
\* decisions were made, every decision whose bridge_log_decision call has
\* logged it is in recent_decisions.
C31_NoLostDecision ==
    uuids <= DecisionsKept
      => \A i \in EventsOf(events, "decision_logged", None) :
           events[i].payload \in Range(projectState.recent_decisions)

\* C32: a write of the project state changes only its own fields:
\* bridge_update_state sets the fields supplied to the values supplied
\* (known_issues becomes the supplied list) and leaves the others, the
\* decisions list included; addDecision changes recent_decisions only;
\* bridge_sync changes last_sync only; nothing else changes the record, and
\* the record is always there: an update with a field never reports failure.
StateFields == {"current_focus", "recent_decisions", "known_issues", "last_sync"}

OnlyChanges(fields) ==
    \A f \in StateFields \ fields : projectState'[f] = projectState[f]

C32_PartialFieldWrites ==
    [][/\ DOMAIN projectState' = StateFields
       /\ \A p \in Procs :
            /\ Enters(p, "state_log")
                 => /\ OnlyChanges(DOMAIN loc'[p].arg)
                    /\ \A f \in DOMAIN loc'[p].arg : projectState'[f] = loc'[p].arg[f]
                    /\ DOMAIN loc'[p].arg \subseteq {"current_focus", "known_issues"}
            /\ Leaves(p, "decision_update") => OnlyChanges({"recent_decisions"})
            /\ Enters(p, "sync_log")
                 => /\ OnlyChanges({"last_sync"})
                    /\ projectState'.last_sync = loc'[p].arg
       /\ projectState' # projectState
            => \E p \in Procs : \/ Enters(p, "state_log")
                                \/ Leaves(p, "decision_update")
                                \/ Enters(p, "sync_log")
       /\ (Returned /\ ret'.op = "update_state" /\ ~ret'.ok) => projectState' = projectState
       /\ (calls' = calls + 1 /\ Returned /\ ret'.op = "update_state") => ~ret'.ok]_vars

C32_Witness ==
    /\ ret.op = "update_state" /\ ret.ok
    /\ projectState.known_issues = <<"i2">>
    /\ projectState.current_focus = "f1"
    /\ projectState.recent_decisions # << >>
    /\ projectState.last_sync # NoTime

\* C33: bridge_update_task never bypasses the state machine: its UPDATE
\* changes at most the title, priority and assignment of its task (the model
\* carries no instructions, acceptance criteria or context fields) and no
\* other task; status, id, sequence, depends_on, created_by, the timestamps
\* and the result stay as they are. No step removes a task.
UpdatableFields == {"title", "priority", "assigned_to"}

C33_UpdateKeepsStateMachineFields ==
    [][/\ \A p \in Procs :
            Leaves(p, "update_update")
              => /\ \A t \in DOMAIN tasks \ {loc[p].tid} : tasks'[t] = tasks[t]
                 /\ loc[p].tid \in DOMAIN tasks
                      => \A f \in DOMAIN tasks[loc[p].tid] \ UpdatableFields :
                           tasks'[loc[p].tid][f] = tasks[loc[p].tid][f]
       /\ DOMAIN tasks \subseteq DOMAIN tasks']_vars

C33_Witness ==
    /\ ret.op = "update_task" /\ ret.ok
    /\ ret.task \in DOMAIN tasks
    /\ tasks[ret.task].title = "t1"
    /\ tasks[ret.task].priority = "high"
    /\ tasks[ret.task].status = "claimed"
    /\ tasks[ret.task].claimed_at # NoTime

\* C34: the dependency graph is acyclic in every reachable state: every
\* identifier in a stored task's depends_on is a stored task with a smaller
\* sequence, no task is among its own direct or transitive prerequisites, and
\* the depends_on of a stored task never changes.
RECURSIVE Prerequisites(_, _, _)
Prerequisites(T, S, n) ==
    IF n = 0 THEN S
    ELSE Prerequisites(T, S \cup UNION {Range(T[d].depends_on) \cap DOMAIN T : d \in S}, n - 1)

Acyclic(T) ==
    \A t \in DOMAIN T :
        /\ \A d \in Range(T[t].depends_on) :
             d \in DOMAIN T /\ T[d].sequence < T[t].sequence
        /\ t \notin Prerequisites(T, Range(T[t].depends_on) \cap DOMAIN T,
                                  Cardinality(DOMAIN T))

C34_DependenciesAcyclic ==
    [][/\ tasks' # tasks => Acyclic(tasks')
       /\ \A t \in DOMAIN tasks : tasks'[t].depends_on = tasks[t].depends_on]_vars

C34_Witness ==
    \E a \in DOMAIN tasks, b \in DOMAIN tasks :
        /\ tasks[b].depends_on = <<a>>
        /\ tasks[a].sequence < tasks[b].sequence
        /\ ret.op = "push_task" /\ ret.ok /\ ret.task = b
        /\ pc = [p \in Procs |-> "idle"]

\* C35: every task that is claimed, in_progress or blocked has an assignee
\* and a claimed_at, every queued task has no claimed_at, and no step clears
\* the assignee of a held task.
Held == {"claimed", "in_progress", "blocked"}

C35_HeldTasksAssigned ==
    [][\A t \in DOMAIN tasks' :
         /\ tasks'[t].status \in Held
              => tasks'[t].assigned_to # Null /\ tasks'[t].claimed_at # NoTime
         /\ tasks'[t].status = "queued" => tasks'[t].claimed_at = NoTime
         /\ (t \in DOMAIN tasks /\ tasks[t].status \in Held /\ tasks[t].assigned_to # Null)
              => tasks'[t].assigned_to # Null]_vars

\* C36: in every reachable state, a task has a completed_at exactly when its
\* status is completed, failed or cancelled.
C36_CompletedAtIffTerminal ==
    \A t \in DOMAIN tasks : (tasks[t].completed_at # NoTime) <=> (tasks[t].status \in Terminal)

\* C37: while a dependency of a queued task is failed or cancelled, no step
\* takes the task out of the queue other than a cancel: the task is not
\* claimed.
DeadDependency(t) ==
    /\ t \in DOMAIN tasks
    /\ tasks[t].status = "queued"
    /\ \E i \in 1..Len(tasks[t].depends_on) :
         LET d == tasks[t].depends_on[i]
         IN  d \in DOMAIN tasks /\ tasks[d].status \in {"failed", "cancelled"}

C37_DeadDependencyBlocks ==
    [][\A t \in TaskIds :
         DeadDependency(t) => tasks'[t].status \in {"queued", "cancelled"}]_vars

\* C38: pullNextTask is read-only and its result is a function of the store
\* and the filters.  Every step that runs one of its statements (in
\* bridge_pull_task or at the end of bridge_complete_task) leaves the tasks,
\* the sequence counter, the clarifications, the event log, the sessions and
\* the project state as they are, and what the call returns is what
\* pullNextTask gives on the store the step ran on: the rows still to scan
\* determine the same task before and after each dependency check.
SelectReturns == calls' = calls + 1 /\ pc' = pc /\ ret'.op = "pull_task"

SelectScans(p) == pc[p] = "idle" /\ pc'[p] = "pull_dep"

DepCheckStep(p) == pc[p] = "pull_dep" /\ (pc'[p] # "pull_dep" \/ loc'[p] # loc[p])

CompletePullStep(p) == pc[p] = "complete_pull" /\ pc'[p] # "complete_pull"

PullStatement ==
    \/ SelectReturns
    \/ \E p \in Procs : SelectScans(p) \/ DepCheckStep(p) \/ CompletePullStep(p)

C38_PullIsReadOnly ==
    [][/\ PullStatement => UNCHANGED <<store, sessions, projectState>>
       /\ SelectReturns
            => \E c \in CategoryFilters : ret'.val = pullNextTask(tasks, c, "executor")
       /\ \A p \in Procs :
            /\ SelectScans(p)
                 => /\ loc'[p].filter \in CategoryFilters
                    /\ FirstEligible(tasks, loc'[p].scan)
                         = pullNextTask(tasks, loc'[p].filter, "executor")
            /\ DepCheckStep(p)
                 => IF pc'[p] = "idle"
                      THEN ret'.val = FirstEligible(tasks, loc[p].scan)
                      ELSE FirstEligible(tasks, loc'[p].scan) = FirstEligible(tasks, loc[p].scan)
            /\ CompletePullStep(p)
                 => IF pc'[p] = "idle"
                      THEN ret'.val = pullNextTask(tasks, << >>, "executor")
                      ELSE FirstEligible(tasks, loc'[p].scan)
                             = pullNextTask(tasks, << >>, "executor")]_vars

\* a scan has returned a task after checking its dependencies, and the task
\* is still queued and unassigned
C38_Witness ==
    /\ ret.op \in {"pull_task", "complete_task"}
    /\ ret.val \in DOMAIN tasks
    /\ Len(tasks[ret.val].depends_on) > 0
    /\ tasks[ret.val].status = "queued"
    /\ tasks[ret.val].claimed_at = NoTime
    /\ pc = [p \in Procs |-> "idle"]

\* C39: the executor's loop empties the queue.  A pull that finds no task
\* matching its filters says "none available" although tasks are queued, so
\* the statement is made for the loop that pulls without a category filter:
\* every task is completed in the end and the last pull says "none
\* available"; until then no pullNextTask, in bridge_pull_task or at the end
\* of bridge_complete_task, comes back empty while a task is queued.
Drained == \A t \in DOMAIN tasks : tasks[t].status = "completed"

NoneAvailable == ret.op \in {"pull_task", "complete_task"} /\ ret.ok /\ ret.val = None

====
